---- MODULE Spec2Model ----
(***************************************************************************)
(* Job orchestration and caching engine of comp_intel:                     *)
(*   database/postgres_models.py    JobManager, CacheManager,              *)
(*                                  CleanupManager                         *)
(*   orchestrator/job_processor_postgres.py   JobProcessorPostgres         *)
(*   worker.py                      the polling loop                       *)
(*   scripts/cleanup_old_data_postgres.py     run_cleanup                  *)
(* One action per store write or external call of the code.                *)
(***************************************************************************)
EXTENDS Integers, Sequences, FiniteSets, TLC

\* ---------------------------------------------------------------- bounds
\* The clock counts days, 0..MaxTime.
MaxTime == 2
\* Longest competitor list given to create_job.
MaxComp == 3
\* save_scrape calls per url are counted up to MaxSaves.
MaxSaves == 2

JobIds == {"j1"}
QueueJobIds == {"j1", "j2"}
URLs == {"u1", "u2"}
Workers == {"w1"}

\* CACHE_TTL_DAYS and CLEANUP_RETENTION_DAYS of the deployment (worker.py
\* reads them from the environment), scaled to the clock.
cache_ttl_days == 1
cleanup_retention_days == 1

\* ------------------------------------------------- configuration values
\* The defaults of SCRAPER_MAX_RETRIES and EMAIL_MAX_RETRIES.
scraper_max_retries == 2
email_max_retries == 3
\* "if failed_competitors >= 2"
AbortThreshold == 2

\* ------------------------------------------------------------ null values
NullTime == 0 - 1
NullInt == 0 - 1
NoText == "null"
NoJobId == "none"
NoFolder == "none"
NoPath == [folder |-> "none", name |-> "none", ts |-> NullTime, kind |-> "none"]
NoRow == [url |-> "none", dealership_name |-> "none", last_scraped_at |-> NullTime,
          inventory_path |-> NoPath, tools_path |-> NoPath, status |-> "none",
          error_message |-> NoText, cache_valid_until |-> NullTime]

\* No save_scrape call yet.
NoSave == [url |-> "none", dealership_name |-> "none", inventory_path |-> NoPath,
           tools_path |-> NoPath, status |-> "none", error_message |-> NoText,
           saved_at |-> NullTime, count |-> 0]

Terminal == {"completed", "failed"}

\* Error messages written on the job row.
MsgInventory == "Inventory data error"
MsgTools == "Tools data error"
MsgAbort == "Aborting: competitors failed (threshold: 2)"
MsgNoCompetitors == "No competitors scraped successfully"
MsgAnalysis == "Analysis failed"
MsgEmail == "Email failed after retries"
MsgUnexpected == "Unexpected error"
MsgWorker == "Worker exception"
MsgScrapeFailed == "Scraping failed after retries"
MsgJobAborted == "Job aborted due to multiple failures"

VARIABLES
    now,              \* wall clock / CURRENT_TIMESTAMP, in days
    jobs,             \* table jobs: job_id -> row
    job_competitors,  \* table job_competitors: rows in insertion order
    scraped_sites,    \* table scraped_sites: a set of rows
    disk,             \* files under data/jobs/<job_id>/
    output,           \* output/inventory.json and output/tools.json exist
    wk,               \* per worker: position and locals of main()/process_job
    calls,            \* per job: what this run asked of cache, scraper, analysis, email
    last_save,        \* per url: arguments and time of the latest save_scrape
    op                \* the JobManager call made last from outside the worker:
                      \* its position in get_cursor and what its caller saw

vars == <<now, jobs, job_competitors, scraped_sites, disk, output, wk, calls, last_save,
         op>>

\* ------------------------------------------------------------- sequences
RECURSIVE SeqsUpTo(_, _)
SeqsUpTo(S, n) ==
    IF n = 0 THEN {<<>>}
    ELSE LET shorter == SeqsUpTo(S, n - 1)
         IN  shorter \cup {Append(s, x) : s \in {t \in shorter : Len(t) = n - 1}, x \in S}

CompetitorLists == SeqsUpTo(URLs, MaxComp) \ {<<>>}

Zeros(n) == [k \in 1..n |-> 0]

\* ----------------------------------------------------------------- paths
Path(folder, name, ts, kind) == [folder |-> folder, name |-> name, ts |-> ts, kind |-> kind]

\* os.path.exists
Exists(p) == p \in disk

\* ------------------------------------------------------------ JobManager
\* progress_percentage is an INTEGER column: the numeric quotient is rounded.
RoundDiv(a, b) == (2 * a + b) \div (2 * b)

\* Variant: the finalize step is not counted.
NewJobRowShort(job_id, n) ==
    [job_id |-> job_id, status |-> "queued", progress_percentage |-> 0,
     current_step |-> NoText, total_steps |-> 2 + n + 1, completed_steps |-> 0,
     error_message |-> NoText, created_at |-> now, updated_at |-> now,
     started_at |-> NullTime, completed_at |-> NullTime, data_folder |-> job_id]

\* JobManager.create_job: the row of the INSERT INTO jobs.
NewJobRow(job_id, n) ==
    [job_id |-> job_id, status |-> "queued", progress_percentage |-> 0,
     current_step |-> NoText, total_steps |-> 2 + n + 2, completed_steps |-> 0,
     error_message |-> NoText, created_at |-> now, updated_at |-> now,
     started_at |-> NullTime, completed_at |-> NullTime, data_folder |-> job_id]

NewCompetitorRow(job_id, url) ==
    [job_id |-> job_id, competitor_url |-> url, competitor_name |-> url,
     status |-> "pending", inventory_path |-> NoPath, tools_path |-> NoPath,
     error_message |-> NoText, scraped_at |-> NullTime]

\* JobManager.create_job: one transaction, job row and competitor rows.
create_job_rows(job_id, urls) ==
    job_competitors \o [k \in 1..Len(urls) |-> NewCompetitorRow(job_id, urls[k])]

\* JobManager.get_job: the job's competitor rows, in table order.
get_job_competitors(job_id) ==
    SelectSeq(job_competitors, LAMBDA r : r.job_id = job_id)

\* Variant: the status is written, the message is not.
StatusRowSilent(row, status, current_step, error_message) ==
    [row EXCEPT
       !.status = status,
       !.updated_at = now,
       !.current_step = IF current_step # NoText THEN current_step ELSE @,
       !.started_at = IF status = "processing" /\ current_step # NoText
                      THEN (IF @ # NullTime THEN @ ELSE now) ELSE @,
       !.completed_at = IF status \in Terminal THEN now ELSE @]

\* JobManager.update_status: the row after the UPDATE.
StatusRow(row, status, current_step, error_message) ==
    [row EXCEPT
       !.status = status,
       !.updated_at = now,
       !.current_step = IF current_step # NoText THEN current_step ELSE @,
       !.error_message = IF error_message # NoText THEN error_message ELSE @,
       !.started_at = IF status = "processing" /\ current_step # NoText
                      THEN (IF @ # NullTime THEN @ ELSE now) ELSE @,
       !.completed_at = IF status \in Terminal THEN now ELSE @]

update_status(job_id, status, current_step, error_message) ==
    [j \in DOMAIN jobs |->
        IF j = job_id THEN StatusRow(jobs[j], status, current_step, error_message)
        ELSE jobs[j]]

\* Variant: the counter advances by two.
ProgressRowSkipping(row, completed_steps) ==
    [row EXCEPT
       !.completed_steps = row.completed_steps + 2,
       !.progress_percentage = IF row.total_steps = 0 THEN NullInt
                               ELSE RoundDiv(row.completed_steps * 100, row.total_steps),
       !.updated_at = now]

\* JobManager.update_progress: in the SET list completed_steps on the right
\* of progress_percentage is the row's value before the UPDATE.
ProgressRow(row, completed_steps) ==
    [row EXCEPT
       !.completed_steps = completed_steps,
       !.progress_percentage = IF row.total_steps = 0 THEN NullInt
                               ELSE RoundDiv(row.completed_steps * 100, row.total_steps),
       !.updated_at = now]

update_progress(job_id, completed_steps) ==
    [j \in DOMAIN jobs |->
        IF j = job_id THEN ProgressRow(jobs[j], completed_steps) ELSE jobs[j]]

\* Variant: a path that is not supplied overwrites the stored one.
CompetitorRowOverwriting(row, status, inventory_path, tools_path, error_message) ==
    [row EXCEPT
       !.status = status,
       !.inventory_path = inventory_path,
       !.tools_path = tools_path,
       !.error_message = error_message,
       !.scraped_at = IF status = "completed" THEN now ELSE @]

\* JobManager.update_competitor_status: every row of the job with that url.
CompetitorRow(row, status, inventory_path, tools_path, error_message) ==
    [row EXCEPT
       !.status = status,
       !.inventory_path = IF inventory_path # NoPath THEN inventory_path ELSE @,
       !.tools_path = IF tools_path # NoPath THEN tools_path ELSE @,
       !.error_message = error_message,
       !.scraped_at = IF status = "completed" THEN now ELSE @]

update_competitor_status(job_id, url, status, inventory_path, tools_path, error_message) ==
    [k \in 1..Len(job_competitors) |->
        IF job_competitors[k].job_id = job_id /\ job_competitors[k].competitor_url = url
        THEN CompetitorRow(job_competitors[k], status, inventory_path, tools_path, error_message)
        ELSE job_competitors[k]]

\* Variant: the SELECT without its ORDER BY.
get_queued_jobs_unordered == {j \in DOMAIN jobs : jobs[j].status = "queued"}

\* JobManager.get_queued_jobs(limit=1): the queued jobs that may come first
\* under ORDER BY created_at ASC (rows with equal created_at in any order).
get_queued_jobs ==
    {j \in DOMAIN jobs :
        /\ jobs[j].status = "queued"
        /\ \A o \in DOMAIN jobs :
              jobs[o].status = "queued" => jobs[j].created_at <= jobs[o].created_at}

\* ---------------------------------------------------------- CacheManager
\* Variant: an entry is still served at the instant it expires.
CacheSelectAtExpiry(url) ==
    {r \in scraped_sites :
        r.url = url /\ r.cache_valid_until >= now /\ r.status = "success"}

\* CacheManager.get_cached_scrape: the rows the SELECT returns.
CacheSelect(url) ==
    {r \in scraped_sites :
        r.url = url /\ r.cache_valid_until > now /\ r.status = "success"}

get_cached_scrape(url) ==
    IF CacheSelect(url) = {} THEN NoRow ELSE CHOOSE r \in CacheSelect(url) : TRUE

CacheRow(url, dealership_name, inventory_path, tools_path, status, error_message) ==
    [url |-> url, dealership_name |-> dealership_name, last_scraped_at |-> now,
     inventory_path |-> inventory_path, tools_path |-> tools_path, status |-> status,
     error_message |-> error_message, cache_valid_until |-> now + cache_ttl_days]

\* Variant: a plain INSERT, without the ON CONFLICT clause.
save_scrape_insert(url, dealership_name, inventory_path, tools_path, status, error_message) ==
    scraped_sites
        \cup {CacheRow(url, dealership_name, inventory_path, tools_path, status, error_message)}

\* CacheManager.save_scrape: INSERT ... ON CONFLICT (url) DO UPDATE.
save_scrape(url, dealership_name, inventory_path, tools_path, status, error_message) ==
    {r \in scraped_sites : r.url # url}
        \cup {CacheRow(url, dealership_name, inventory_path, tools_path, status, error_message)}

\* CacheManager.cleanup_expired
cleanup_expired == {r \in scraped_sites : ~(r.cache_valid_until < now)}

\* ------------------------------------------------------- worker locals
\* Locals of main() and of the process_job call it is in; cleanup_began is
\* the time at which this process last entered run_cleanup (the time of its
\* "RUNNING DAILY CLEANUP" log line), null while it has not.
IdleWorker(last_cleanup_time) ==
    [pc |-> "idle", job_id |-> NoJobId, competitors |-> <<>>, i |-> 0, attempt |-> 0,
     failed_competitors |-> 0, competitors_data |-> <<>>, completed_steps |-> 0,
     inv_path |-> NoPath, tools_path |-> NoPath, cached |-> NoRow,
     client_ts |-> NullTime, analysis_output |-> NoPath, k |-> 0,
     old_jobs |-> {}, last_cleanup_time |-> last_cleanup_time,
     cleanup_began |-> NullTime]

\* What one run of process_job asked of its collaborators, per position of
\* the competitor list: the cache row returned and what os.path.exists said,
\* the scraper invocations and their successes; and per job the analysis and
\* email calls and the value process_job returned.
NoCalls(n) ==
    [lookups |-> Zeros(n), row |-> [k \in 1..n |-> NoRow],
     inv_exists |-> [k \in 1..n |-> FALSE], tools_exists |-> [k \in 1..n |-> FALSE],
     scrapes |-> Zeros(n), scrape_ok |-> Zeros(n), marked_failed |-> Zeros(n),
     stale |-> FALSE, analysis |-> 0, files |-> <<>>, email |-> 0, email_ok |-> 0,
     result |-> "none"]

\* No JobManager call has been made from outside the worker.
NoOp ==
    [pc |-> "none", job_id |-> NoJobId, completed_steps |-> 0, attempt |-> 0,
     executed |-> 0, committed |-> 0, error |-> "none", urls |-> <<>>]

Init ==
    /\ now = 0
    /\ jobs = <<>>
    /\ job_competitors = <<>>
    /\ scraped_sites = {}
    /\ disk = {}
    /\ output = [inventory |-> FALSE, tools |-> FALSE]
    /\ wk = [w \in Workers |-> IdleWorker(0 - 1)]
    /\ calls = [j \in QueueJobIds |-> NoCalls(0)]
    /\ last_save = [u \in URLs |-> NoSave]
    /\ op = NoOp

\* The arguments and the time of a save_scrape call, and how many calls the
\* url has seen (counted up to MaxSaves).
Saved(url, dealership_name, inventory_path, tools_path, status, error_message) ==
    [url |-> url, dealership_name |-> dealership_name, inventory_path |-> inventory_path,
     tools_path |-> tools_path, status |-> status, error_message |-> error_message,
     saved_at |-> now,
     count |-> IF last_save[url].count < MaxSaves THEN last_save[url].count + 1
               ELSE MaxSaves]

\* ------------------------------------------------------------ environment
\* Time passes.  The clock counts days: a day goes by while the worker waits
\* (time.sleep, subprocess.run, the HTTP call of the mail API), not between
\* two statements.
Blocking == {"idle", "scrape", "analysis", "email"}

Tick ==
    /\ now < MaxTime
    /\ \A w \in Workers : wk[w].pc \in Blocking
    /\ now' = now + 1
    /\ UNCHANGED <<op, jobs, job_competitors, scraped_sites, disk, output,
                   wk, calls, last_save>>

\* The submission API calls JobManager.create_job.
CreateJob(job_id, urls) ==
    /\ job_id \notin DOMAIN jobs
    /\ jobs' = [j \in DOMAIN jobs \cup {job_id} |->
                  IF j = job_id THEN NewJobRow(job_id, Len(urls)) ELSE jobs[j]]
    /\ job_competitors' = create_job_rows(job_id, urls)
    /\ calls' = [calls EXCEPT ![job_id] = NoCalls(Len(urls))]
    /\ UNCHANGED <<op, now, scraped_sites, disk, output, wk, last_save>>

\* ------------------------------------------------------------ worker loop
CleanupDue(w) == now - wk[w].last_cleanup_time >= 1

\* Variant: the age alone selects a job, whatever its status.
OldJobsAnyStatus ==
    {j \in DOMAIN jobs : jobs[j].created_at < now - cleanup_retention_days}

\* CleanupManager.cleanup_old_jobs: the rows the SELECT returns.
OldJobs ==
    {j \in DOMAIN jobs :
        jobs[j].created_at < now - cleanup_retention_days /\ jobs[j].status \in Terminal}

\* run_cleanup, first statement pair: cleanup_old_jobs deletes the old jobs
\* (ON DELETE CASCADE removes their competitor rows).
CleanupOldJobs(w) ==
    /\ wk[w].pc = "idle"
    /\ CleanupDue(w)
    /\ jobs' = [j \in DOMAIN jobs \ OldJobs |-> jobs[j]]
    /\ job_competitors' = SelectSeq(job_competitors, LAMBDA r : r.job_id \notin OldJobs)
    /\ wk' = [wk EXCEPT ![w].pc = IF OldJobs = {} THEN "cl_cache" ELSE "cl_folders",
                        ![w].old_jobs = {jobs[j].data_folder : j \in OldJobs},
                        ![w].cleanup_began = now]
    /\ UNCHANGED <<op, now, scraped_sites, disk, output, calls, last_save>>

\* cleanup_old_jobs statement by statement, for a store that other processes
\* write to.  The SELECT: old_jobs is what it returns; when it returns
\* nothing the method returns without a DELETE.
SelectOldJobs(w) ==
    /\ wk[w].pc = "idle"
    /\ CleanupDue(w)
    /\ wk' = [wk EXCEPT ![w].pc = IF OldJobs = {} THEN "cl_cache" ELSE "cl_delete",
                        ![w].old_jobs = {jobs[j].data_folder : j \in OldJobs},
                        ![w].cleanup_began = now]
    /\ UNCHANGED <<op, now, jobs, job_competitors, scraped_sites, disk, output,
                   calls, last_save>>

\* The DELETE: the same WHERE clause with the same cutoff_date, evaluated on
\* the rows committed by then (the connection is left at READ COMMITTED).
DeleteOldJobs(w) ==
    /\ wk[w].pc = "cl_delete"
    /\ jobs' = [j \in DOMAIN jobs \ OldJobs |-> jobs[j]]
    /\ job_competitors' = SelectSeq(job_competitors, LAMBDA r : r.job_id \notin OldJobs)
    /\ wk' = [wk EXCEPT ![w].pc = "cl_folders"]
    /\ UNCHANGED <<op, now, scraped_sites, disk, output, calls, last_save>>

\* cleanup_data_folders: shutil.rmtree of each old job's data folder.
CleanupDataFolders(w) ==
    /\ wk[w].pc = "cl_folders"
    /\ disk' = {p \in disk : p.folder \notin wk[w].old_jobs}
    /\ wk' = [wk EXCEPT ![w].pc = "cl_cache", ![w].old_jobs = {}]
    /\ UNCHANGED <<op, now, jobs, job_competitors, scraped_sites, output,
                   calls, last_save>>

\* cache_mgr.cleanup_expired(), then run_cleanup returns True and the loop
\* records last_cleanup_time.
CleanupExpiredCache(w) ==
    /\ wk[w].pc = "cl_cache"
    /\ scraped_sites' = cleanup_expired
    /\ wk' = [wk EXCEPT ![w].pc = "poll", ![w].last_cleanup_time = now]
    /\ UNCHANGED <<op, now, jobs, job_competitors, disk, output, calls, last_save>>

\* A store call of run_cleanup raises (PostgresDatabase() or cleanup_old_jobs
\* at the start, cleanup_expired at the end; its transaction is rolled back):
\* run_cleanup returns False, the loop logs a warning and goes on to the
\* poll with last_cleanup_time as it was.
CleanupFails(w) ==
    /\ \/ wk[w].pc = "idle" /\ CleanupDue(w)
       \/ wk[w].pc = "cl_cache"
    /\ wk' = [wk EXCEPT ![w].pc = "poll",
                        ![w].cleanup_began = IF wk[w].pc = "idle" THEN now ELSE @]
    /\ UNCHANGED <<op, now, jobs, job_competitors, scraped_sites, disk, output,
                   calls, last_save>>

\* The worker process dies (kill, out of memory, host restart) and is
\* started again: main() begins with fresh locals.
Crash(w) ==
    /\ wk' = [wk EXCEPT ![w] = IdleWorker(now - 1)]
    /\ UNCHANGED <<op, now, jobs, job_competitors, scraped_sites, disk, output,
                   calls, last_save>>

\* get_queued_jobs(limit=1): a job is found and process_job is entered, or
\* the loop sleeps and starts over.
Poll(w) ==
    /\ \/ wk[w].pc = "poll"
       \/ wk[w].pc = "idle" /\ ~CleanupDue(w)
    /\ IF get_queued_jobs = {}
       THEN wk' = [wk EXCEPT ![w].pc = "idle"]
       ELSE \E j \in get_queued_jobs :
               wk' = [wk EXCEPT ![w].pc = "get_job", ![w].job_id = j]
    /\ UNCHANGED <<op, now, jobs, job_competitors, scraped_sites, disk, output,
                   calls, last_save>>

\* process_job returns to main(), which logs and loops.
Return(w, result) ==
    /\ wk' = [wk EXCEPT ![w] = [IdleWorker(wk[w].last_cleanup_time)
                                   EXCEPT !.cleanup_began = wk[w].cleanup_began]]
    /\ calls' = [calls EXCEPT ![wk[w].job_id].result = result]

\* ------------------------------------------------------------ process_job
Job(w) == wk[w].job_id
Url(w) == wk[w].competitors[wk[w].i]

\* Variant: the loop is left without the "at least 1 successful competitor"
\* test.
AfterCompetitorUntested(w, data) ==
    IF wk[w].i < Len(wk[w].competitors) THEN "cache_get" ELSE "st_analysis"

\* Where the competitor loop goes after position i: the next competitor, or
\* past the loop to the "at least 1 successful competitor" test.
AfterCompetitor(w, data) ==
    IF wk[w].i < Len(wk[w].competitors) THEN "cache_get"
    ELSE IF Len(data) = 0 THEN "st_no_competitors" ELSE "st_analysis"

\* job = self.job_mgr.get_job(job_id)
GetJob(w) ==
    /\ wk[w].pc = "get_job"
    /\ IF Job(w) \in DOMAIN jobs
       THEN /\ wk' = [wk EXCEPT ![w].pc = "st_starting",
                      ![w].competitors =
                          [k \in 1..Len(get_job_competitors(Job(w))) |->
                              get_job_competitors(Job(w))[k].competitor_url]]
            /\ calls' = [calls EXCEPT ![Job(w)].result = "running"]
       ELSE Return(w, "false")
    /\ UNCHANGED <<op, now, jobs, job_competitors, scraped_sites, disk, output,
                   last_save>>

\* The SELECT of get_job has no ORDER BY: on a table whose pages have free
\* space from deleted jobs the scan may return a job's competitor rows in an
\* order that is not the order of their INSERTs.
Orderings(n) == {f \in [1..n -> 1..n] : \A a, b \in 1..n : f[a] = f[b] => a = b}

ScanOrders(rows) == {[k \in 1..Len(rows) |-> rows[f[k]]] : f \in Orderings(Len(rows))}

\* job = self.job_mgr.get_job(job_id), the rows in any order the scan yields.
GetJobScan(w) ==
    /\ wk[w].pc = "get_job"
    /\ IF Job(w) \in DOMAIN jobs
       THEN /\ \E rows \in ScanOrders(get_job_competitors(Job(w))) :
                  wk' = [wk EXCEPT ![w].pc = "st_starting",
                            ![w].competitors =
                                [k \in 1..Len(rows) |-> rows[k].competitor_url]]
            /\ calls' = [calls EXCEPT ![Job(w)].result = "running"]
       ELSE Return(w, "false")
    /\ UNCHANGED <<op, now, jobs, job_competitors, scraped_sites, disk, output,
                   last_save>>

\* Variant: process_job goes on only with a job that is still queued.
StatusStartingChecked(w) ==
    /\ wk[w].pc = "st_starting"
    /\ IF jobs[Job(w)].status = "queued"
       THEN /\ jobs' = update_status(Job(w), "processing", "Starting", NoText)
            /\ wk' = [wk EXCEPT ![w].pc = "st_saving", ![w].completed_steps = 0]
            /\ UNCHANGED calls
       ELSE /\ Return(w, "false")
            /\ UNCHANGED jobs
    /\ UNCHANGED <<op, now, job_competitors, scraped_sites, disk, output, last_save>>

\* update_status(job_id, 'processing', current_step='Starting')
StatusStarting(w) ==
    /\ wk[w].pc = "st_starting"
    /\ jobs' = update_status(Job(w), "processing", "Starting", NoText)
    /\ wk' = [wk EXCEPT ![w].pc = "st_saving", ![w].completed_steps = 0]
    /\ UNCHANGED <<op, now, job_competitors, scraped_sites, disk, output,
                   calls, last_save>>

\* update_status(job_id, 'processing', current_step='Saving client data')
StatusSaving(w) ==
    /\ wk[w].pc = "st_saving"
    /\ jobs' = update_status(Job(w), "processing", "Saving client data", NoText)
    /\ wk' = [wk EXCEPT ![w].pc = "save_inventory", ![w].client_ts = now]
    /\ UNCHANGED <<op, now, job_competitors, scraped_sites, disk, output,
                   calls, last_save>>

\* Variant: a failed inventory write does not end the run.
SaveInventoryLenient(w) ==
    /\ wk[w].pc = "save_inventory"
    /\ \E ok \in BOOLEAN :
          /\ disk' = IF ok
                     THEN disk \cup {Path(Job(w), "client", wk[w].client_ts, "inventory")}
                     ELSE disk
          /\ wk' = [wk EXCEPT ![w].pc = "save_tools"]
    /\ UNCHANGED <<op, now, jobs, job_competitors, scraped_sites, output,
                   calls, last_save>>

\* Step 1, inventory: a missing 'inventory_json', a failed open or write,
\* or json.loads raising is the failure; otherwise the file is there.
SaveInventory(w) ==
    /\ wk[w].pc = "save_inventory"
    /\ \E ok \in BOOLEAN :
          /\ disk' = IF ok
                     THEN disk \cup {Path(Job(w), "client", wk[w].client_ts, "inventory")}
                     ELSE disk
          /\ wk' = [wk EXCEPT ![w].pc = IF ok THEN "save_tools" ELSE "st_inventory_error"]
    /\ UNCHANGED <<op, now, jobs, job_competitors, scraped_sites, output,
                   calls, last_save>>

\* update_status(job_id, 'failed', error_message="Inventory data error: ...")
FailInventory(w) ==
    /\ wk[w].pc = "st_inventory_error"
    /\ jobs' = update_status(Job(w), "failed", NoText, MsgInventory)
    /\ Return(w, "false")
    /\ UNCHANGED <<op, now, job_competitors, scraped_sites, disk, output, last_save>>

\* Step 1, tools.
SaveTools(w) ==
    /\ wk[w].pc = "save_tools"
    /\ \E ok \in BOOLEAN :
          /\ disk' = IF ok
                     THEN disk \cup {Path(Job(w), "client", wk[w].client_ts, "tools")}
                     ELSE disk
          /\ wk' = [wk EXCEPT ![w].pc = IF ok THEN "pr_client" ELSE "st_tools_error"]
    /\ UNCHANGED <<op, now, jobs, job_competitors, scraped_sites, output,
                   calls, last_save>>

\* update_status(job_id, 'failed', error_message="Tools data error: ...")
FailTools(w) ==
    /\ wk[w].pc = "st_tools_error"
    /\ jobs' = update_status(Job(w), "failed", NoText, MsgTools)
    /\ Return(w, "false")
    /\ UNCHANGED <<op, now, job_competitors, scraped_sites, disk, output, last_save>>

\* completed_steps += 1; update_progress  (after the client data is saved);
\* the competitor loop starts with failed_competitors = 0.
ProgressClient(w) ==
    /\ wk[w].pc = "pr_client"
    /\ jobs' = update_progress(Job(w), wk[w].completed_steps + 1)
    /\ wk' = [wk EXCEPT ![w].completed_steps = @ + 1,
                        ![w].competitors_data = <<>>,
                        ![w].failed_competitors = 0,
                        ![w].i = IF Len(wk[w].competitors) = 0 THEN 0 ELSE 1,
                        ![w].pc = IF Len(wk[w].competitors) = 0
                                  THEN "st_no_competitors" ELSE "cache_get"]
    /\ UNCHANGED <<op, now, job_competitors, scraped_sites, disk, output,
                   calls, last_save>>

\* ----------------------------------------------- Step 2: the competitors
\* for attempt in range(1, self.scraper_max_retries + 1): after a failed
\* attempt the loop goes on while attempt < scraper_max_retries.
ScrapeAgain(attempt) == attempt < scraper_max_retries

\* Variant: one send more than the budget.
EmailAgainOnceMore(attempt) == attempt <= email_max_retries

\* for attempt in range(1, self.email_max_retries + 1)
EmailAgain(attempt) == attempt < email_max_retries

\* Variant: a returned row is trusted without looking at the disk.
CacheUsableUnchecked(row) == row # NoRow

\* cached = get_cached_scrape(comp_url), then the two os.path.exists tests.
CacheUsable(row) ==
    row # NoRow /\ Exists(row.inventory_path) /\ Exists(row.tools_path)

CacheGet(w) ==
    /\ wk[w].pc = "cache_get"
    /\ LET row == get_cached_scrape(Url(w))
       IN  /\ wk' = [wk EXCEPT ![w].cached = IF CacheUsable(row) THEN row ELSE NoRow,
                               ![w].attempt = IF CacheUsable(row) THEN 0 ELSE 1,
                               ![w].pc = IF CacheUsable(row) THEN "cs_cached" ELSE "scrape"]
           /\ calls' = [calls EXCEPT ![Job(w)].lookups[wk[w].i] = @ + 1,
                                     ![Job(w)].row[wk[w].i] = row,
                                     ![Job(w)].inv_exists[wk[w].i] = Exists(row.inventory_path),
                                     ![Job(w)].tools_exists[wk[w].i] = Exists(row.tools_path)]
    /\ UNCHANGED <<op, now, jobs, job_competitors, scraped_sites, disk, output,
                   last_save>>

\* Cache hit: update_competitor_status(completed, cached paths) and the
\* entry appended to competitors_data.
MarkCached(w) ==
    /\ wk[w].pc = "cs_cached"
    /\ job_competitors' = update_competitor_status(Job(w), Url(w), "completed",
                              wk[w].cached.inventory_path, wk[w].cached.tools_path, NoText)
    /\ wk' = [wk EXCEPT ![w].pc = "pr_cached",
                        ![w].competitors_data =
                            Append(@, [url |-> Url(w),
                                       inventory_path |-> wk[w].cached.inventory_path,
                                       tools_path |-> wk[w].cached.tools_path])]
    /\ UNCHANGED <<op, now, jobs, scraped_sites, disk, output, calls, last_save>>

\* completed_steps += 1; update_progress; continue
ProgressCached(w) ==
    /\ wk[w].pc = "pr_cached"
    /\ jobs' = update_progress(Job(w), wk[w].completed_steps + 1)
    /\ wk' = [wk EXCEPT ![w].completed_steps = @ + 1,
                        ![w].cached = NoRow,
                        ![w].i = IF @ < Len(wk[w].competitors) THEN @ + 1 ELSE @,
                        ![w].pc = AfterCompetitor(w, wk[w].competitors_data)]
    /\ UNCHANGED <<op, now, job_competitors, scraped_sites, disk, output,
                   calls, last_save>>

\* One attempt of the retry loop: _run_scraper.  The subprocess exits 0 or
\* not (a timeout raises as well) and may have written either file to
\* output/ (save_results writes each file only when its phase is enabled,
\* the inventory first); output/ is not cleared before the run, and with
\* exit 0 and both files present they are moved into the data folder (the
\* scraper writes JSON arrays, so json.load succeeds).  calls[j].stale
\* records that a moved file was not written by this invocation.
Scrape(w) ==
    /\ wk[w].pc = "scrape"
    /\ \E exit0 \in BOOLEAN, wrote_inventory \in BOOLEAN, wrote_tools \in BOOLEAN :
          LET out == [inventory |-> output.inventory \/ wrote_inventory,
                      tools |-> output.tools \/ wrote_tools]
              ok == exit0 /\ out.inventory /\ out.tools
              left_over == ok /\ (~wrote_inventory \/ ~wrote_tools)
              inv_dest == Path(Job(w), Url(w), now, "inventory")
              tools_dest == Path(Job(w), Url(w), now, "tools")
          IN  /\ output' = IF ok THEN [inventory |-> FALSE, tools |-> FALSE] ELSE out
              /\ disk' = IF ok THEN disk \cup {inv_dest, tools_dest} ELSE disk
              /\ wk' = [wk EXCEPT
                          ![w].inv_path = IF ok THEN inv_dest ELSE NoPath,
                          ![w].tools_path = IF ok THEN tools_dest ELSE NoPath,
                          ![w].attempt = IF ~ok /\ ScrapeAgain(@) THEN @ + 1 ELSE @,
                          ![w].pc = IF ok THEN "cache_save"
                                    ELSE IF ScrapeAgain(wk[w].attempt) THEN "scrape"
                                    ELSE "cs_failed"]
              /\ calls' = [calls EXCEPT ![Job(w)].scrapes[wk[w].i] = @ + 1,
                                        ![Job(w)].scrape_ok[wk[w].i] = IF ok THEN @ + 1 ELSE @,
                                        ![Job(w)].stale = @ \/ left_over]
    /\ UNCHANGED <<op, now, jobs, job_competitors, scraped_sites, last_save>>

\* cache_mgr.save_scrape(..., status='success')
CacheSave(w) ==
    /\ wk[w].pc = "cache_save"
    /\ scraped_sites' = save_scrape(Url(w), Url(w), wk[w].inv_path, wk[w].tools_path,
                                    "success", NoText)
    /\ last_save' = [last_save EXCEPT ![Url(w)] =
                        Saved(Url(w), Url(w), wk[w].inv_path, wk[w].tools_path,
                              "success", NoText)]
    /\ wk' = [wk EXCEPT ![w].pc = "cs_scraped"]
    /\ UNCHANGED <<op, now, jobs, job_competitors, disk, output, calls>>

\* update_competitor_status(completed, scraped paths); competitors_data
\* gets the entry; scrape_success = True; break
MarkScraped(w) ==
    /\ wk[w].pc = "cs_scraped"
    /\ job_competitors' = update_competitor_status(Job(w), Url(w), "completed",
                              wk[w].inv_path, wk[w].tools_path, NoText)
    /\ wk' = [wk EXCEPT ![w].pc = "pr_competitor",
                        ![w].inv_path = NoPath,
                        ![w].tools_path = NoPath,
                        ![w].competitors_data =
                            Append(@, [url |-> Url(w),
                                       inventory_path |-> wk[w].inv_path,
                                       tools_path |-> wk[w].tools_path])]
    /\ UNCHANGED <<op, now, jobs, scraped_sites, disk, output, calls, last_save>>

\* Variant: the loop is left one failure later.
AbortNowLate(failed_competitors) == failed_competitors >= AbortThreshold + 1

\* if failed_competitors >= 2
AbortNow(failed_competitors) == failed_competitors >= AbortThreshold

\* Variant: the failure is recorded in the cache as well.
MarkFailedCaching(w) ==
    /\ wk[w].pc = "cs_failed"
    /\ job_competitors' = update_competitor_status(Job(w), Url(w), "failed",
                              NoPath, NoPath, MsgScrapeFailed)
    /\ scraped_sites' = save_scrape(Url(w), Url(w), NoPath, NoPath, "failed",
                                    MsgScrapeFailed)
    /\ wk' = [wk EXCEPT ![w].failed_competitors = @ + 1,
                        ![w].k = IF AbortNow(wk[w].failed_competitors + 1)
                                 THEN wk[w].i + 1 ELSE 0,
                        ![w].pc = IF AbortNow(wk[w].failed_competitors + 1)
                                  THEN (IF wk[w].i + 1 <= Len(wk[w].competitors)
                                        THEN "abort_mark" ELSE "st_abort")
                                  ELSE "pr_competitor"]
    /\ calls' = [calls EXCEPT ![Job(w)].marked_failed[wk[w].i] = @ + 1]
    /\ UNCHANGED <<op, now, jobs, disk, output, last_save>>

\* if not scrape_success: failed_competitors += 1;
\* update_competitor_status(failed); then the abort test.
MarkFailed(w) ==
    /\ wk[w].pc = "cs_failed"
    /\ job_competitors' = update_competitor_status(Job(w), Url(w), "failed",
                              NoPath, NoPath, MsgScrapeFailed)
    /\ wk' = [wk EXCEPT ![w].failed_competitors = @ + 1,
                        ![w].k = IF AbortNow(wk[w].failed_competitors + 1)
                                 THEN wk[w].i + 1 ELSE 0,
                        ![w].pc = IF AbortNow(wk[w].failed_competitors + 1)
                                  THEN (IF wk[w].i + 1 <= Len(wk[w].competitors)
                                        THEN "abort_mark" ELSE "st_abort")
                                  ELSE "pr_competitor"]
    /\ calls' = [calls EXCEPT ![Job(w)].marked_failed[wk[w].i] = @ + 1]
    /\ UNCHANGED <<op, now, jobs, scraped_sites, disk, output, last_save>>

\* for remaining_comp in job['competitors'][i:]:
\*     update_competitor_status(aborted)
AbortMark(w) ==
    /\ wk[w].pc = "abort_mark"
    /\ job_competitors' = update_competitor_status(Job(w), wk[w].competitors[wk[w].k],
                              "aborted", NoPath, NoPath, MsgJobAborted)
    /\ wk' = [wk EXCEPT ![w].k = @ + 1,
                        ![w].pc = IF wk[w].k + 1 <= Len(wk[w].competitors)
                                  THEN "abort_mark" ELSE "st_abort"]
    /\ UNCHANGED <<op, now, jobs, scraped_sites, disk, output, calls, last_save>>

\* update_status(job_id, 'failed', error_message="Aborting: ..."); return False
FailAbort(w) ==
    /\ wk[w].pc = "st_abort"
    /\ jobs' = update_status(Job(w), "failed", NoText, MsgAbort)
    /\ Return(w, "false")
    /\ UNCHANGED <<op, now, job_competitors, scraped_sites, disk, output, last_save>>

\* completed_steps += 1; update_progress  (end of the loop body)
ProgressCompetitor(w) ==
    /\ wk[w].pc = "pr_competitor"
    /\ jobs' = update_progress(Job(w), wk[w].completed_steps + 1)
    /\ wk' = [wk EXCEPT ![w].completed_steps = @ + 1,
                        ![w].attempt = 0,
                        ![w].i = IF @ < Len(wk[w].competitors) THEN @ + 1 ELSE @,
                        ![w].pc = AfterCompetitor(w, wk[w].competitors_data)]
    /\ UNCHANGED <<op, now, job_competitors, scraped_sites, disk, output,
                   calls, last_save>>

\* if len(competitors_data) == 0: update_status(failed); return False
FailNoCompetitors(w) ==
    /\ wk[w].pc = "st_no_competitors"
    /\ jobs' = update_status(Job(w), "failed", NoText, MsgNoCompetitors)
    /\ Return(w, "false")
    /\ UNCHANGED <<op, now, job_competitors, scraped_sites, disk, output, last_save>>

\* ------------------------------------------------------ Steps 3, 4 and 5
\* update_status(job_id, 'processing', current_step='Running analysis');
\* analysis_output is named from the clock.
StatusAnalysis(w) ==
    /\ wk[w].pc = "st_analysis"
    /\ jobs' = update_status(Job(w), "processing", "Running analysis", NoText)
    /\ wk' = [wk EXCEPT ![w].pc = "analysis",
                        ![w].analysis_output = Path(Job(w), "analysis", now, "txt")]
    /\ UNCHANGED <<op, now, job_competitors, scraped_sites, disk, output,
                   calls, last_save>>

\* _run_analysis: for comp in competitors_data: files.append(inventory_path);
\* files.append(tools_path)
RECURSIVE FilePairs(_)
FilePairs(data) ==
    IF data = <<>> THEN <<>>
    ELSE <<Head(data).inventory_path, Head(data).tools_path>> \o FilePairs(Tail(data))

\* Variant: the client's files come after the competitors'.
AnalysisFilesClientLast(w) ==
    FilePairs(wk[w].competitors_data)
        \o <<Path(Job(w), "client", wk[w].client_ts, "inventory"),
             Path(Job(w), "client", wk[w].client_ts, "tools")>>

\* _run_analysis: files = [client_inventory, client_tools] + the pairs; the
\* command line of market_comparator.py.
AnalysisFiles(w) ==
    <<Path(Job(w), "client", wk[w].client_ts, "inventory"),
      Path(Job(w), "client", wk[w].client_ts, "tools")>>
        \o FilePairs(wk[w].competitors_data)

\* Variant: the outcome of the analysis is not looked at.
AnalysisUnchecked(w) ==
    /\ wk[w].pc = "analysis"
    /\ \E exit0 \in BOOLEAN, present \in BOOLEAN :
          LET ok == exit0 /\ present
          IN  /\ disk' = IF ok THEN disk \cup {wk[w].analysis_output} ELSE disk
              /\ wk' = [wk EXCEPT ![w].pc = "pr_analysis"]
    /\ calls' = [calls EXCEPT ![Job(w)].analysis = @ + 1,
                              ![Job(w)].files = AnalysisFiles(w)]
    /\ UNCHANGED <<op, now, jobs, job_competitors, scraped_sites, output, last_save>>

\* _run_analysis: the subprocess exits 0 or not (or times out); with exit 0
\* email.txt, when it exists, is moved to analysis_output, and a missing
\* one raises.
Analysis(w) ==
    /\ wk[w].pc = "analysis"
    /\ \E exit0 \in BOOLEAN, present \in BOOLEAN :
          LET ok == exit0 /\ present
          IN  /\ disk' = IF ok THEN disk \cup {wk[w].analysis_output} ELSE disk
              /\ wk' = [wk EXCEPT ![w].pc = IF ok THEN "pr_analysis" ELSE "st_analysis_failed"]
    /\ calls' = [calls EXCEPT ![Job(w)].analysis = @ + 1,
                              ![Job(w)].files = AnalysisFiles(w)]
    /\ UNCHANGED <<op, now, jobs, job_competitors, scraped_sites, output, last_save>>

\* update_status(job_id, 'failed', error_message="Analysis failed: ..."); return False
FailAnalysis(w) ==
    /\ wk[w].pc = "st_analysis_failed"
    /\ jobs' = update_status(Job(w), "failed", NoText, MsgAnalysis)
    /\ Return(w, "false")
    /\ UNCHANGED <<op, now, job_competitors, scraped_sites, disk, output, last_save>>

\* completed_steps += 1; update_progress  (after the analysis)
ProgressAnalysis(w) ==
    /\ wk[w].pc = "pr_analysis"
    /\ jobs' = update_progress(Job(w), wk[w].completed_steps + 1)
    /\ wk' = [wk EXCEPT ![w].completed_steps = @ + 1, ![w].pc = "st_email"]
    /\ UNCHANGED <<op, now, job_competitors, scraped_sites, disk, output,
                   calls, last_save>>

\* update_status(job_id, 'processing', current_step='Sending email')
StatusEmail(w) ==
    /\ wk[w].pc = "st_email"
    /\ jobs' = update_status(Job(w), "processing", "Sending email", NoText)
    /\ wk' = [wk EXCEPT ![w].pc = "email", ![w].attempt = 1]
    /\ UNCHANGED <<op, now, job_competitors, scraped_sites, disk, output,
                   calls, last_save>>

\* One attempt of the email loop: _send_email reads the analysis file and
\* calls send_single_email, which answers True or False.
Email(w) ==
    /\ wk[w].pc = "email"
    /\ \E success \in BOOLEAN :
          LET called == Exists(wk[w].analysis_output)
              ok == called /\ success
          IN  /\ (~called) => ~success
              /\ wk' = [wk EXCEPT
                          ![w].attempt = IF ~ok /\ EmailAgain(@) THEN @ + 1 ELSE @,
                          ![w].pc = IF ok THEN "pr_email"
                                    ELSE IF EmailAgain(wk[w].attempt) THEN "email"
                                    ELSE "st_email_failed"]
              /\ calls' = [calls EXCEPT ![Job(w)].email = IF called THEN @ + 1 ELSE @,
                                        ![Job(w)].email_ok = IF ok THEN @ + 1 ELSE @]
    /\ UNCHANGED <<op, now, jobs, job_competitors, scraped_sites, disk, output,
                   last_save>>

\* Variant: the run returns False without the status write.
FailEmailUnrecorded(w) ==
    /\ wk[w].pc = "st_email_failed"
    /\ Return(w, "false")
    /\ UNCHANGED <<op, now, jobs, job_competitors, scraped_sites, disk, output, last_save>>

\* update_status(job_id, 'failed', error_message="Email failed after ..."); return False
FailEmail(w) ==
    /\ wk[w].pc = "st_email_failed"
    /\ jobs' = update_status(Job(w), "failed", NoText, MsgEmail)
    /\ Return(w, "false")
    /\ UNCHANGED <<op, now, job_competitors, scraped_sites, disk, output, last_save>>

\* completed_steps += 1; update_progress  (after the email)
ProgressEmail(w) ==
    /\ wk[w].pc = "pr_email"
    /\ jobs' = update_progress(Job(w), wk[w].completed_steps + 1)
    /\ wk' = [wk EXCEPT ![w].completed_steps = @ + 1, ![w].pc = "st_completed"]
    /\ UNCHANGED <<op, now, job_competitors, scraped_sites, disk, output,
                   calls, last_save>>

\* update_status(job_id, 'completed', current_step='Completed')
StatusCompleted(w) ==
    /\ wk[w].pc = "st_completed"
    /\ jobs' = update_status(Job(w), "completed", "Completed", NoText)
    /\ wk' = [wk EXCEPT ![w].pc = "pr_final"]
    /\ UNCHANGED <<op, now, job_competitors, scraped_sites, disk, output,
                   calls, last_save>>

\* completed_steps += 1; update_progress; return True
ProgressFinal(w) ==
    /\ wk[w].pc = "pr_final"
    /\ jobs' = update_progress(Job(w), wk[w].completed_steps + 1)
    /\ Return(w, "true")
    /\ UNCHANGED <<op, now, job_competitors, scraped_sites, disk, output, last_save>>

\* ------------------------------------------------------------- exceptions
\* Statements of process_job's outer try block that are outside every inner
\* try: a store call that raises there is caught by "except Exception" at
\* the end of process_job.
RaisePcs ==
    {"get_job", "st_starting", "st_saving", "st_inventory_error", "st_tools_error",
     "pr_client", "cache_get", "cs_cached", "pr_cached", "cs_failed", "abort_mark",
     "st_abort", "pr_competitor", "st_no_competitors", "st_analysis",
     "st_analysis_failed", "pr_analysis", "st_email", "st_email_failed", "pr_email",
     "st_completed", "pr_final"}

\* The store call at the worker's position raises (its transaction is rolled
\* back, nothing is written).
Raise(w) ==
    /\ wk[w].pc \in RaisePcs
    /\ wk' = [wk EXCEPT ![w].pc = "handler"]
    /\ UNCHANGED <<op, now, jobs, job_competitors, scraped_sites, disk, output, calls, last_save>>

\* save_scrape or update_competitor_status raises inside the attempt's try:
\* "except Exception" of the retry loop takes it for a failed attempt.
RaiseInAttempt(w) ==
    /\ wk[w].pc \in {"cache_save", "cs_scraped"}
    /\ wk' = [wk EXCEPT ![w].inv_path = NoPath,
                        ![w].tools_path = NoPath,
                        ![w].attempt = IF ScrapeAgain(@) THEN @ + 1 ELSE @,
                        ![w].pc = IF ScrapeAgain(wk[w].attempt) THEN "scrape" ELSE "cs_failed"]
    /\ UNCHANGED <<op, now, jobs, job_competitors, scraped_sites, disk, output, calls, last_save>>

\* except Exception as e: update_status(job_id, 'failed',
\*     error_message="Unexpected error: ..."); return False
Handler(w) ==
    /\ wk[w].pc = "handler"
    /\ jobs' = update_status(Job(w), "failed", NoText, MsgUnexpected)
    /\ Return(w, "false")
    /\ UNCHANGED <<op, now, job_competitors, scraped_sites, disk, output, last_save>>

\* The handler's own update_status raises: the exception leaves process_job.
HandlerRaise(w) ==
    /\ wk[w].pc = "handler"
    /\ wk' = [wk EXCEPT ![w].pc = "worker_handler"]
    /\ UNCHANGED <<op, now, jobs, job_competitors, scraped_sites, disk, output, calls, last_save>>

\* main(): except Exception around process_job:
\* update_status(job_id, 'failed', error_message="Worker exception: ...")
WorkerHandler(w) ==
    /\ wk[w].pc = "worker_handler"
    /\ jobs' = update_status(Job(w), "failed", NoText, MsgWorker)
    /\ Return(w, "raised")
    /\ UNCHANGED <<op, now, job_competitors, scraped_sites, disk, output, last_save>>

\* That update_status raises too: the loop's outer "except Exception" logs,
\* sleeps 30 seconds and the loop goes on.
WorkerHandlerRaise(w) ==
    /\ wk[w].pc = "worker_handler"
    /\ Return(w, "raised")
    /\ UNCHANGED <<op, now, jobs, job_competitors, scraped_sites, disk, output, last_save>>

\* ------------------------------------------------- CacheManager as an API
Folders == {"j1", "j9"}

\* Any caller: CacheManager.save_scrape(url, ...), status as given.
ApiSave(url, folder, status) ==
    LET inventory_path == Path(folder, url, now, "inventory")
        tools_path == Path(folder, url, now, "tools")
        error_message == IF status = "success" THEN NoText ELSE "scrape error"
    IN  /\ scraped_sites' = save_scrape(url, url, inventory_path, tools_path,
                                        status, error_message)
        /\ last_save' = [last_save EXCEPT ![url] =
                            Saved(url, url, inventory_path, tools_path, status, error_message)]
        /\ UNCHANGED <<op, now, jobs, job_competitors, disk, output, wk, calls>>

\* Any caller: CacheManager.cleanup_expired() (run_cleanup with cache_only).
ApiSweep ==
    /\ scraped_sites' = cleanup_expired
    /\ UNCHANGED <<op, now, jobs, job_competitors, disk, output, wk, calls, last_save>>

\* --------------------------------------------------- JobManager as an API
\* Any caller: JobManager.update_status(job_id, status, current_step=None,
\* error_message=None) with one of the statuses the callers write.
ApiStatus(job_id, status, current_step, error_message) ==
    /\ job_id \in DOMAIN jobs
    /\ jobs' = update_status(job_id, status, current_step, error_message)
    /\ UNCHANGED <<op, now, job_competitors, scraped_sites, disk, output, wk, calls, last_save>>

\* Any caller: JobManager.update_competitor_status(job_id, competitor_url,
\* status, inventory_path=None, tools_path=None, error_message=None).
ApiInventoryPaths == {Path(f, "u1", 0, "inventory") : f \in Folders}

ApiToolsPaths == {Path("j1", "u1", 0, "tools")}

ApiCompetitor(job_id, url, status, inventory_path, tools_path) ==
    /\ job_competitors' =
          update_competitor_status(job_id, url, status, inventory_path, tools_path,
                                   IF status = "completed" THEN NoText ELSE MsgScrapeFailed)
    /\ UNCHANGED <<op, now, jobs, scraped_sites, disk, output, wk, calls, last_save>>

\* Variant: an existing job_id is written over (INSERT ... ON CONFLICT DO
\* UPDATE) and the competitor rows are inserted.
ApiCreateUpsert(job_id, urls) ==
    /\ op.pc \in {"none", "done"}
    /\ jobs' = [j \in DOMAIN jobs \cup {job_id} |->
                  IF j = job_id THEN NewJobRow(job_id, Len(urls)) ELSE jobs[j]]
    /\ job_competitors' = create_job_rows(job_id, urls)
    /\ calls' = [calls EXCEPT ![job_id] = NoCalls(Len(urls))]
    /\ op' = [NoOp EXCEPT !.pc = "done", !.job_id = job_id, !.executed = 1, !.committed = 1]
    /\ UNCHANGED <<now, scraped_sites, disk, output, wk, last_save>>

\* Any caller: JobManager.create_job(job_id, ...).  With an existing job_id
\* the first INSERT violates the primary key of jobs: psycopg2 raises
\* IntegrityError into get_cursor, whose "except Exception" rolls back and
\* re-raises.  Otherwise the job row and the competitor rows are committed.
ApiCreate(job_id, urls) ==
    /\ op.pc \in {"none", "done"}
    /\ IF job_id \in DOMAIN jobs
       THEN /\ op' = [NoOp EXCEPT !.pc = "done", !.job_id = job_id,
                                  !.error = "IntegrityError"]
            /\ UNCHANGED <<now, jobs, job_competitors, scraped_sites, disk, output, wk,
                           calls, last_save>>
       ELSE /\ jobs' = [j \in DOMAIN jobs \cup {job_id} |->
                          IF j = job_id THEN NewJobRow(job_id, Len(urls)) ELSE jobs[j]]
            /\ job_competitors' = create_job_rows(job_id, urls)
            /\ calls' = [calls EXCEPT ![job_id] = NoCalls(Len(urls))]
            /\ op' = [NoOp EXCEPT !.pc = "done", !.job_id = job_id, !.executed = 1,
                                  !.committed = 1]
            /\ UNCHANGED <<now, scraped_sites, disk, output, wk, last_save>>

\* ---------------------------------------------- PostgresDatabase.get_cursor
\* max_retries = 3
max_retries == 3

\* Any caller: JobManager.update_progress(job_id, completed_steps) enters
\* "with self.db.get_cursor() as cursor".
CursorCall(job_id, completed_steps) ==
    /\ op.pc \in {"none", "done"}
    /\ job_id \in DOMAIN jobs
    /\ op' = [NoOp EXCEPT !.pc = "connect", !.job_id = job_id,
                          !.completed_steps = completed_steps]
    /\ UNCHANGED <<now, jobs, job_competitors, scraped_sites, disk, output, wk, calls,
                   last_save>>

\* A connection error inside the loop body: "continue" while
\* attempt < max_retries - 1, "raise" on the last attempt.
AfterConnectionError ==
    IF op.attempt < max_retries - 1
    THEN [op EXCEPT !.pc = "reconnect", !.attempt = @ + 1]
    ELSE [op EXCEPT !.pc = "done", !.error = "OperationalError"]

\* conn = self._get_connection(); cursor = conn.cursor(...); yield cursor.
\* psycopg2.connect raises OperationalError or the cursor is yielded.  At
\* "connect" the generator is in __enter__ and the with body comes next; at
\* "reconnect" the loop has come round after an exception thrown in at the
\* yield (or after a failed commit), the generator yields a second time and
\* contextlib raises RuntimeError("generator didn't stop ...") to the caller.
CursorConnect ==
    /\ op.pc \in {"connect", "reconnect"}
    /\ \E connected \in BOOLEAN :
          op' = IF connected
                THEN (IF op.pc = "connect" THEN [op EXCEPT !.pc = "body"]
                      ELSE [op EXCEPT !.pc = "done", !.error = "RuntimeError"])
                ELSE (IF op.attempt < max_retries - 1
                      THEN [op EXCEPT !.attempt = @ + 1]
                      ELSE [op EXCEPT !.pc = "done", !.error = "OperationalError"])
    /\ UNCHANGED <<now, jobs, job_competitors, scraped_sites, disk, output, wk, calls,
                   last_save>>

\* The with body: cursor.execute(UPDATE jobs ...) returns, or the connection
\* is lost (OperationalError, InterfaceError), or the statement is refused
\* (another psycopg2 error: rollback and raise).
CursorBody ==
    /\ op.pc = "body"
    /\ \E outcome \in {"ok", "OperationalError", "DataError"} :
          op' = IF outcome = "ok" THEN [op EXCEPT !.pc = "commit", !.executed = @ + 1]
                ELSE IF outcome = "OperationalError" THEN AfterConnectionError
                ELSE [op EXCEPT !.pc = "done", !.error = "DataError"]
    /\ UNCHANGED <<now, jobs, job_competitors, scraped_sites, disk, output, wk, calls,
                   last_save>>

\* conn.commit(); return -- or the commit finds the connection lost.
CursorCommit ==
    /\ op.pc = "commit"
    /\ \E committed \in BOOLEAN :
          IF committed
          THEN /\ jobs' = update_progress(op.job_id, op.completed_steps)
               /\ op' = [op EXCEPT !.pc = "done", !.committed = @ + 1]
          ELSE /\ jobs' = jobs
               /\ op' = AfterConnectionError
    /\ UNCHANGED <<now, job_competitors, scraped_sites, disk, output, wk, calls, last_save>>

\* --------------------------------------- create_job, statement by statement
\* Any caller: JobManager.create_job(job_id, ...) with a new job_id enters
\* its "with self.db.get_cursor()" block; the connection has autocommit off.
TxnBegin(job_id, urls) ==
    /\ op.pc \in {"none", "done"}
    /\ job_id \notin DOMAIN jobs
    /\ op' = [NoOp EXCEPT !.pc = "insert_job", !.job_id = job_id, !.urls = urls]
    /\ UNCHANGED <<now, jobs, job_competitors, scraped_sites, disk, output, wk, calls,
                   last_save>>

\* Variant: the connection commits every statement (autocommit).
TxnInsertJobAutocommit ==
    /\ op.pc = "insert_job"
    /\ jobs' = [j \in DOMAIN jobs \cup {op.job_id} |->
                  IF j = op.job_id THEN NewJobRow(op.job_id, Len(op.urls)) ELSE jobs[j]]
    /\ calls' = [calls EXCEPT ![op.job_id] = NoCalls(Len(op.urls))]
    /\ op' = [op EXCEPT !.pc = "insert_competitor", !.executed = 1]
    /\ UNCHANGED <<now, job_competitors, scraped_sites, disk, output, wk, last_save>>

\* cursor.execute(INSERT INTO jobs ...): the row is in the open transaction,
\* other connections do not see it.
TxnInsertJob ==
    /\ op.pc = "insert_job"
    /\ op' = [op EXCEPT !.pc = "insert_competitor", !.executed = 1]
    /\ UNCHANGED <<now, jobs, job_competitors, scraped_sites, disk, output, wk, calls,
                   last_save>>

\* for comp in competitor_urls: cursor.execute(INSERT INTO job_competitors ...)
TxnInsertCompetitor ==
    /\ op.pc = "insert_competitor"
    /\ op' = [op EXCEPT !.executed = @ + 1,
                        !.pc = IF op.executed >= Len(op.urls) THEN "commit" ELSE @]
    /\ UNCHANGED <<now, jobs, job_competitors, scraped_sites, disk, output, wk, calls,
                   last_save>>

\* conn.commit() of get_cursor: the job row and the competitor rows become
\* visible together.
TxnCommit ==
    /\ op.pc = "commit"
    /\ op.urls # <<>>
    /\ jobs' = [j \in DOMAIN jobs \cup {op.job_id} |->
                  IF j = op.job_id THEN NewJobRow(op.job_id, Len(op.urls)) ELSE jobs[j]]
    /\ job_competitors' = create_job_rows(op.job_id, op.urls)
    /\ calls' = [calls EXCEPT ![op.job_id] = NoCalls(Len(op.urls))]
    /\ op' = [op EXCEPT !.pc = "done", !.committed = 1]
    /\ UNCHANGED <<now, scraped_sites, disk, output, wk, last_save>>

\* ------------------------------------------------------ other processes
\* The web frontend inserts its jobs itself, without a data_folder:
\* process_job then works in data/jobs/<job_id> ("Create data folder if not
\* set (for jobs from frontend)") and leaves the column NULL.
CreateFrontendJob(job_id, urls) ==
    /\ job_id \notin DOMAIN jobs
    /\ jobs' = [j \in DOMAIN jobs \cup {job_id} |->
                  IF j = job_id
                  THEN [NewJobRow(job_id, Len(urls)) EXCEPT !.data_folder = NoFolder]
                  ELSE jobs[j]]
    /\ job_competitors' = create_job_rows(job_id, urls)
    /\ calls' = [calls EXCEPT ![job_id] = NoCalls(Len(urls))]
    /\ UNCHANGED <<op, now, scraped_sites, disk, output, wk, last_save>>

\* cleanup_old_data_postgres.py run from the command line:
\* run_cleanup(retention_days, dry_run, cache_only, jobs_only).
\* cleanup_old_jobs() is called in either mode; cleanup_data_folders skips a
\* NULL data_folder and, in a dry run, removes nothing; the cache is swept
\* in a live run.
RunCleanup(dry_run, cache_only, jobs_only) ==
    /\ jobs' = IF cache_only THEN jobs ELSE [j \in DOMAIN jobs \ OldJobs |-> jobs[j]]
    /\ job_competitors' =
          IF cache_only THEN job_competitors
          ELSE SelectSeq(job_competitors, LAMBDA r : r.job_id \notin OldJobs)
    /\ disk' = IF cache_only \/ dry_run THEN disk
               ELSE {p \in disk : p.folder \notin {jobs[j].data_folder : j \in OldJobs}}
    /\ scraped_sites' = IF jobs_only \/ dry_run THEN scraped_sites ELSE cleanup_expired
    /\ UNCHANGED <<op, now, output, wk, calls, last_save>>

\* ---------------------------------------------------------- specification
Submit == \E j \in JobIds, urls \in CompetitorLists : CreateJob(j, urls)

WorkerLoop(w) ==
    \/ CleanupOldJobs(w)
    \/ CleanupDataFolders(w)
    \/ CleanupExpiredCache(w)
    \/ Poll(w)

\* process_job after get_job.
ProcessRest(w) ==
    \/ StatusStarting(w)
    \/ StatusSaving(w)
    \/ SaveInventory(w)
    \/ FailInventory(w)
    \/ SaveTools(w)
    \/ FailTools(w)
    \/ ProgressClient(w)
    \/ CacheGet(w)
    \/ MarkCached(w)
    \/ ProgressCached(w)
    \/ Scrape(w)
    \/ CacheSave(w)
    \/ MarkScraped(w)
    \/ MarkFailed(w)
    \/ AbortMark(w)
    \/ FailAbort(w)
    \/ ProgressCompetitor(w)
    \/ FailNoCompetitors(w)
    \/ StatusAnalysis(w)
    \/ Analysis(w)
    \/ FailAnalysis(w)
    \/ ProgressAnalysis(w)
    \/ StatusEmail(w)
    \/ Email(w)
    \/ FailEmail(w)
    \/ ProgressEmail(w)
    \/ StatusCompleted(w)
    \/ ProgressFinal(w)

ProcessJob(w) == GetJob(w) \/ ProcessRest(w)

Next ==
    \/ Tick
    \/ Submit
    \/ \E w \in Workers : WorkerLoop(w)
    \/ \E w \in Workers : ProcessJob(w)

Spec == Init /\ [][Next]_vars

\* The worker process is alive: main() goes on with its next statement, and
\* every collaborator call returns or runs into its timeout.
Live == \A w \in Workers : WF_vars(WorkerLoop(w) \/ ProcessJob(w))

SpecLive == Spec /\ Live

\* Within one day (the clock stands still), with store calls that may raise.
Exceptions(w) ==
    \/ Raise(w)
    \/ RaiseInAttempt(w)
    \/ Handler(w)
    \/ HandlerRaise(w)
    \/ WorkerHandler(w)
    \/ WorkerHandlerRaise(w)

NextFault ==
    \/ Submit
    \/ \E w \in Workers : CleanupOldJobs(w) \/ CleanupExpiredCache(w) \/ Poll(w)
    \/ \E w \in Workers : ProcessJob(w)
    \/ \E w \in Workers : Exceptions(w)

SpecFault == Init /\ [][NextFault]_vars

\* CacheManager alone: saves, sweeps and the clock.
NextCache ==
    \/ Tick
    \/ \E url \in URLs, folder \in Folders, status \in {"success", "failed"} :
          ApiSave(url, folder, status)
    \/ ApiSweep

SpecCache == Init /\ [][NextCache]_vars

\* Jobs of one competitor, submitted by the API or by the frontend, one
\* worker, and the cleanup script run by hand.
SubmitOne == \E j \in JobIds, u \in URLs : CreateJob(j, <<u>>)

SubmitFrontend == \E j \in JobIds, u \in URLs : CreateFrontendJob(j, <<u>>)

Cli == \E dry_run \in BOOLEAN, cache_only \in BOOLEAN, jobs_only \in BOOLEAN :
          RunCleanup(dry_run, cache_only, jobs_only)

ProcessOne(w) ==
    \/ GetJob(w)
    \/ StatusStarting(w)
    \/ StatusSaving(w)
    \/ SaveInventory(w)
    \/ FailInventory(w)
    \/ SaveTools(w)
    \/ FailTools(w)
    \/ ProgressClient(w)
    \/ CacheGet(w)
    \/ MarkCached(w)
    \/ ProgressCached(w)
    \/ Scrape(w)
    \/ CacheSave(w)
    \/ MarkScraped(w)
    \/ MarkFailed(w)
    \/ ProgressCompetitor(w)
    \/ FailNoCompetitors(w)
    \/ StatusAnalysis(w)
    \/ Analysis(w)
    \/ FailAnalysis(w)
    \/ ProgressAnalysis(w)
    \/ StatusEmail(w)
    \/ Email(w)
    \/ FailEmail(w)
    \/ ProgressEmail(w)
    \/ StatusCompleted(w)
    \/ ProgressFinal(w)

NextCli ==
    \/ Tick
    \/ SubmitOne
    \/ SubmitFrontend
    \/ Cli
    \/ \E w \in Workers : WorkerLoop(w)
    \/ \E w \in Workers : ProcessOne(w)

SpecCli == Init /\ [][NextCli]_vars

\* Two jobs in the queue, one competitor each, one worker.
SubmitQueue == \E j \in QueueJobIds : CreateJob(j, <<"u1">>)

NextQueue ==
    \/ Tick
    \/ SubmitQueue
    \/ \E w \in Workers : WorkerLoop(w)
    \/ \E w \in Workers : ProcessOne(w)

SpecQueue == Init /\ [][NextQueue]_vars

\* Within one day, the competitor rows read in any order.
NextScan ==
    \/ Submit
    \/ \E w \in Workers : CleanupOldJobs(w) \/ CleanupExpiredCache(w) \/ Poll(w)
    \/ \E w \in Workers : GetJobScan(w) \/ ProcessRest(w)

SpecScan == Init /\ [][NextScan]_vars

\* Jobs of one competitor, one worker that may die and be started again, and
\* cleanup runs that may fail.
NextCrash ==
    \/ Tick
    \/ SubmitOne
    \/ \E w \in Workers : WorkerLoop(w) \/ CleanupFails(w)
    \/ \E w \in Workers : ProcessOne(w)
    \/ \E w \in Workers : Crash(w)

SpecCrash == Init /\ [][NextCrash]_vars

\* JobManager alone: jobs are created and their status is written, with or
\* without a step label and a message, as the days go by.
NextStatus ==
    \/ Tick
    \/ SubmitOne
    \/ \E j \in JobIds, status \in {"processing", "completed", "failed"},
          current_step \in {NoText, "Starting"}, error_message \in {NoText, MsgWorker} :
          ApiStatus(j, status, current_step, error_message)

SpecStatus == Init /\ [][NextStatus]_vars

\* JobManager alone, two jobs of the same competitor: the competitor row of
\* one of them is written as the days go by.
NextRows ==
    \/ Tick
    \/ SubmitQueue
    \/ \E j \in JobIds, url \in URLs, status \in {"completed", "failed", "aborted"},
          inventory_path \in ApiInventoryPaths \cup {NoPath},
          tools_path \in ApiToolsPaths \cup {NoPath} :
          ApiCompetitor(j, url, status, inventory_path, tools_path)

SpecRows == Init /\ [][NextRows]_vars

\* One caller, one store call at a time through get_cursor (create_job,
\* create_job again, update_progress), with connections that fail.
NextCursor ==
    \/ \E j \in JobIds, u \in URLs : ApiCreate(j, <<u>>)
    \/ \E j \in JobIds, completed_steps \in 0..2 : CursorCall(j, completed_steps)
    \/ CursorConnect
    \/ CursorBody
    \/ CursorCommit

SpecCursor == Init /\ [][NextCursor]_vars

\* Within one day: jobs are created statement by statement while the worker
\* polls and runs them.
TxnLists == {<<"u1">>, <<"u1", "u2", "u2">>}

NextTxn ==
    \/ \E j \in JobIds, urls \in TxnLists : TxnBegin(j, urls)
    \/ TxnInsertJob
    \/ TxnInsertCompetitor
    \/ TxnCommit
    \/ \E w \in Workers : CleanupOldJobs(w) \/ CleanupExpiredCache(w) \/ Poll(w)
    \/ \E w \in Workers : ProcessJob(w)

SpecTxn == Init /\ [][NextTxn]_vars

\* The job status writes of process_job in another worker process: Starting
\* on the queued job it has taken, then completed or failed at its end.
OtherProcess(job_id, status) ==
    /\ job_id \in DOMAIN jobs
    /\ \/ jobs[job_id].status = "queued" /\ status = "processing"
       \/ jobs[job_id].status = "processing" /\ status \in Terminal
    /\ ApiStatus(job_id, status,
                 IF status = "processing" THEN "Starting"
                 ELSE IF status = "completed" THEN "Completed" ELSE NoText,
                 IF status = "failed" THEN MsgWorker ELSE NoText)

\* The worker's daily cleanup, statement by statement, on a store whose
\* job rows other processes create and move through their statuses.
NextSweep ==
    \/ Tick
    \/ SubmitQueue
    \/ \E j \in QueueJobIds, status \in {"processing", "completed", "failed"} :
          OtherProcess(j, status)
    \/ \E w \in Workers : SelectOldJobs(w) \/ DeleteOldJobs(w)
    \/ \E w \in Workers : CleanupDataFolders(w) \/ CleanupExpiredCache(w) \/ Poll(w)

SpecSweep == Init /\ [][NextSweep]_vars

\* Two worker processes on the same store, within one day, jobs of one
\* competitor.
RaceWorkers == {"w1", "w2"}

InitRace ==
    /\ now = 0
    /\ jobs = <<>>
    /\ job_competitors = <<>>
    /\ scraped_sites = {}
    /\ disk = {}
    /\ output = [inventory |-> FALSE, tools |-> FALSE]
    /\ wk = [w \in RaceWorkers |-> IdleWorker(0 - 1)]
    /\ calls = [j \in QueueJobIds |-> NoCalls(0)]
    /\ last_save = [u \in URLs |-> NoSave]
    /\ op = NoOp

NextRace ==
    \/ \E j \in JobIds : CreateJob(j, <<"u1">>)
    \/ \E w \in RaceWorkers : CleanupOldJobs(w) \/ CleanupExpiredCache(w) \/ Poll(w)
    \/ \E w \in RaceWorkers : ProcessOne(w)

SpecRace == InitRace /\ [][NextRace]_vars

\* ================================================================ claims
Rows(j) == get_job_competitors(j)
Positions(j) == 1..Len(calls[j].lookups)
Returned(j) == calls[j].result \in {"true", "false"}
FailedPositions(j) == {p \in Positions(j) : calls[j].marked_failed[p] > 0}
LastFailure(j) == CHOOSE p \in FailedPositions(j) : \A q \in FailedPositions(j) : q <= p
At(j, p) == {w \in Workers : wk[w].job_id = j /\ wk[w].i = p}

\* C1: a terminal status is absorbing: no step changes the status of a job
\* that is completed or failed.
TerminalAbsorbing ==
    [][\A j \in DOMAIN jobs :
          (jobs[j].status \in Terminal /\ j \in DOMAIN jobs')
              => jobs'[j].status = jobs[j].status]_vars

\* C2: in every store state completed_steps <= total_steps, and
\* completed_steps = total_steps exactly when the status is completed.
StepsMatchStatus ==
    \A j \in DOMAIN jobs :
        /\ jobs[j].completed_steps <= jobs[j].total_steps
        /\ (jobs[j].completed_steps = jobs[j].total_steps) <=> (jobs[j].status = "completed")

\* C3: from the second permanent failure on, no competitor later in the list
\* is looked up in the cache or scraped and neither analysis nor email is
\* invoked; when process_job has returned the job is failed with the abort
\* message, the later competitors are aborted and none is pending.
AbortRule ==
    \A j \in DOMAIN jobs :
        Cardinality(FailedPositions(j)) >= 2 =>
            /\ \A p \in Positions(j) :
                  p > LastFailure(j) => calls[j].lookups[p] = 0 /\ calls[j].scrapes[p] = 0
            /\ calls[j].analysis = 0
            /\ calls[j].email = 0
            /\ Returned(j) =>
                  /\ calls[j].result = "false"
                  /\ jobs[j].status = "failed"
                  /\ jobs[j].error_message = MsgAbort
                  /\ \A p \in Positions(j) :
                        /\ Rows(j)[p].status # "pending"
                        /\ p > LastFailure(j) => Rows(j)[p].status = "aborted"

\* A job of three competitors has returned after two failures, the third
\* competitor aborted.
AbortRuleWitness ==
    \E j \in DOMAIN jobs :
        /\ Returned(j)
        /\ Cardinality(FailedPositions(j)) = 2
        /\ LastFailure(j) < Len(Rows(j))
        /\ Rows(j)[Len(Rows(j))].status = "aborted"

\* C4: when Phase 2 has ended, normally or by abort, completed_steps is
\* 1 + the number of the job's competitor rows that are completed or failed
\* (stated for jobs whose competitor URLs are pairwise distinct, where every
\* row is written by its own position only).
DistinctUrls(j) ==
    \A p, q \in Positions(j) :
        Rows(j)[p].competitor_url = Rows(j)[q].competitor_url => p = q

PhaseTwoEnded(j) ==
    \/ \E w \in Workers :
          wk[w].job_id = j /\ wk[w].pc \in {"st_analysis", "st_no_competitors", "st_abort"}
    \/ jobs[j].status = "failed" /\ jobs[j].error_message \in {MsgAbort, MsgNoCompetitors}

AttemptedSteps ==
    \A j \in DOMAIN jobs :
        (DistinctUrls(j) /\ PhaseTwoEnded(j)) =>
            jobs[j].completed_steps =
                1 + Cardinality({p \in Positions(j) :
                                    Rows(j)[p].status \in {"completed", "failed"}})

\* C5: a run whose competitor loop ended without abort and without a
\* success ends failed with the zero-success message, no competitor aborted
\* and neither analysis nor email invoked.
ResolvedOk(j, p) ==
    \/ calls[j].scrape_ok[p] > 0
    \/ calls[j].lookups[p] > 0 /\ calls[j].scrapes[p] = 0

ZeroSuccess(j) ==
    /\ \A p \in Positions(j) : calls[j].lookups[p] > 0 /\ ~ResolvedOk(j, p)
    /\ Cardinality(FailedPositions(j)) < 2

ZeroSuccessRule ==
    \A j \in DOMAIN jobs :
        /\ (Returned(j) /\ ZeroSuccess(j)) =>
              /\ jobs[j].status = "failed"
              /\ jobs[j].error_message = MsgNoCompetitors
        /\ (jobs[j].error_message = MsgNoCompetitors \/ (Returned(j) /\ ZeroSuccess(j))) =>
              /\ \A p \in Positions(j) : Rows(j)[p].status # "aborted"
              /\ calls[j].analysis = 0
              /\ calls[j].email = 0

\* A job with one competitor whose attempts all failed has returned.
ZeroSuccessWitness ==
    \E j \in DOMAIN jobs :
        /\ Returned(j)
        /\ Len(Rows(j)) = 1
        /\ calls[j].scrapes[1] = scraper_max_retries
        /\ Rows(j)[1].status = "failed"
        /\ jobs[j].error_message = MsgNoCompetitors

\* C6: a competitor is resolved from the cache, marked completed with the
\* cached paths and never scraped, exactly when the lookup returned a row and
\* both its files existed; after a hit with a missing file the scraper runs.
Usable(j, p) ==
    calls[j].row[p] # NoRow /\ calls[j].inv_exists[p] /\ calls[j].tools_exists[p]

CacheUse ==
    \A j \in DOMAIN jobs : \A p \in Positions(j) :
        calls[j].lookups[p] > 0 =>
            /\ calls[j].lookups[p] = 1
            /\ Usable(j, p) => calls[j].scrapes[p] = 0
            /\ (~Usable(j, p) /\ \A w \in At(j, p) : wk[w].pc # "scrape")
                  => calls[j].scrapes[p] >= 1
            /\ \A w \in At(j, p) :
                  wk[w].pc = "pr_cached" =>
                      /\ Usable(j, p)
                      /\ Rows(j)[p].status = "completed"
                      /\ Rows(j)[p].inventory_path = calls[j].row[p].inventory_path
                      /\ Rows(j)[p].tools_path = calls[j].row[p].tools_path

\* In one job a hit whose files are gone was scraped again and a later
\* competitor was resolved from the cache.
CacheUseWitness ==
    \E j \in DOMAIN jobs : \E p, q \in Positions(j) :
        /\ calls[j].row[p] # NoRow
        /\ ~calls[j].inv_exists[p]
        /\ calls[j].scrapes[p] >= 1
        /\ Usable(j, q)
        /\ Rows(j)[q].status = "completed"
        /\ Returned(j)

\* C7: get_cached_scrape(url) returns a row exactly when the latest save
\* for the url has cache_valid_until > now and status success, whatever was
\* saved or swept before; the row it returns is that save's.
LatestSaveValid(u) ==
    /\ last_save[u] # NoSave
    /\ last_save[u].saved_at + cache_ttl_days > now
    /\ last_save[u].status = "success"

CacheHitIffValid ==
    \A u \in URLs :
        /\ (get_cached_scrape(u) # NoRow) <=> LatestSaveValid(u)
        /\ get_cached_scrape(u) # NoRow =>
              /\ get_cached_scrape(u).url = u
              /\ get_cached_scrape(u).inventory_path = last_save[u].inventory_path
              /\ get_cached_scrape(u).tools_path = last_save[u].tools_path

\* A successful entry still in the table whose cache_valid_until is in the
\* past: the lookup misses.
CacheHitIffValidWitness ==
    \E r \in scraped_sites :
        /\ r.status = "success"
        /\ r.cache_valid_until < now
        /\ get_cached_scrape(r.url) = NoRow

\* C8: the cache holds at most one row per url; the row of a url carries
\* the values of the latest save for it, with cache_valid_until = time of
\* that save + TTL; a save changes no row of another url.
CacheUpsert ==
    /\ [](\A r \in scraped_sites :
            /\ \A q \in scraped_sites : q.url = r.url => q = r
            /\ r.url \in URLs
            /\ r.dealership_name = last_save[r.url].dealership_name
            /\ r.inventory_path = last_save[r.url].inventory_path
            /\ r.tools_path = last_save[r.url].tools_path
            /\ r.status = last_save[r.url].status
            /\ r.error_message = last_save[r.url].error_message
            /\ r.last_scraped_at = last_save[r.url].saved_at
            /\ r.cache_valid_until = last_save[r.url].saved_at + cache_ttl_days)
    /\ [][\A u \in URLs :
            last_save'[u] # last_save[u] =>
                /\ Cardinality({r \in scraped_sites' : r.url = u}) = 1
                /\ {r \in scraped_sites' : r.url # u} = {r \in scraped_sites : r.url # u}]_vars

\* A url saved twice, the second time at a later day and with another
\* status, while the other url has a row.
CacheUpsertWitness ==
    \E r, o \in scraped_sites :
        /\ last_save[r.url].count = 2
        /\ r.last_scraped_at > 0
        /\ r.status = "failed"
        /\ o.url # r.url

\* C9: per competitor the scraper runs at most scraper_max_retries times and
\* never after a successful attempt; the competitor is marked failed only
\* after scraper_max_retries attempts that all failed. Holds while store
\* calls succeed; a save_scrape or update_competitor_status that raises
\* after a successful scrape sends the loop to another scraper run.
ScraperBudget ==
    /\ [](\A j \in JobIds : \A p \in Positions(j) :
            /\ calls[j].scrapes[p] <= scraper_max_retries
            /\ calls[j].scrape_ok[p] <= 1
            /\ calls[j].marked_failed[p] <= 1
            /\ calls[j].marked_failed[p] = 1 =>
                  calls[j].scrapes[p] = scraper_max_retries /\ calls[j].scrape_ok[p] = 0)
    /\ [][\A j \in JobIds : \A p \in Positions(j) :
            (calls[j].scrape_ok[p] >= 1 /\ p \in DOMAIN calls'[j].scrapes)
                => calls'[j].scrapes[p] <= calls[j].scrapes[p]]_vars

\* C10: the email collaborator is called at most email_max_retries times per
\* job and never after a success; a run with a successful send returns with
\* the job completed, a run whose email_max_retries sends all failed returns
\* with the job failed and the email message; a job is completed only after
\* a successful send.
EmailBudget ==
    /\ [](\A j \in JobIds :
            /\ calls[j].email <= email_max_retries
            /\ calls[j].email_ok <= 1
            /\ j \in DOMAIN jobs =>
                  /\ jobs[j].status = "completed" => calls[j].email_ok = 1
                  /\ (Returned(j) /\ calls[j].email_ok = 1) =>
                        jobs[j].status = "completed" /\ calls[j].result = "true"
                  /\ (Returned(j) /\ calls[j].email = email_max_retries
                         /\ calls[j].email_ok = 0) =>
                        /\ jobs[j].status = "failed"
                        /\ jobs[j].error_message = MsgEmail
                        /\ calls[j].result = "false")
    /\ [][\A j \in JobIds :
            calls[j].email_ok >= 1 => calls'[j].email <= calls[j].email]_vars

\* Two failed sends, then a successful third: the job is completed.
EmailBudgetWitness ==
    \E j \in DOMAIN jobs :
        /\ Returned(j)
        /\ calls[j].email = email_max_retries
        /\ calls[j].email_ok = 1
        /\ jobs[j].status = "completed"

\* C11: a step removes a job row exactly when it is the cleanup's delete and
\* the job is completed or failed and was created before now - retention;
\* a queued or processing job is never removed.
CleanupRuns ==
    \E w \in Workers : wk[w].pc = "idle" /\ wk'[w].pc \in {"cl_folders", "cl_cache"}

RetentionRule ==
    [][\A j \in DOMAIN jobs :
          (j \notin DOMAIN jobs') <=>
              /\ CleanupRuns
              /\ jobs[j].status \in Terminal
              /\ jobs[j].created_at < now - cleanup_retention_days]_vars

\* The cleanup has just deleted an old terminal job and holds its folder.
RetentionRuleWitness ==
    \E w \in Workers :
        /\ wk[w].pc = "cl_folders"
        /\ wk[w].old_jobs # {}
        /\ DOMAIN jobs = {}

\* C12: a run of the cleanup with dry_run = true, whatever its scope, leaves
\* the job rows, the competitor rows, the cache rows and the files on disk
\* as they were.
DryRunNoMutation ==
    [][(\E cache_only \in BOOLEAN, jobs_only \in BOOLEAN :
            RunCleanup(TRUE, cache_only, jobs_only))
          => UNCHANGED <<jobs, job_competitors, scraped_sites, disk>>]_vars

\* C13: after a live run of the cleanup, every job it deleted has no job
\* row, no competitor row, and no file left in its data folder
\* data/jobs/<job_id>.
LiveCleanupRemoves ==
    [][(\E jobs_only \in BOOLEAN : RunCleanup(FALSE, FALSE, jobs_only))
          => \A j \in DOMAIN jobs \ DOMAIN jobs' :
                /\ \A k \in 1..Len(job_competitors') : job_competitors'[k].job_id # j
                /\ \A p \in disk' : p.folder # j]_vars

\* C14: a job starts with completed_steps 0; every store write that changes
\* completed_steps raises it by exactly 1 and is the write after the client
\* data (1), after the competitor at position i (1 + i), after the analysis
\* (n + 2), after the email (n + 3) or after finalize (n + 4 = total_steps);
\* a run that returned true has completed_steps = total_steps.
ProgressWrite(j, w) ==
    LET n == Len(Rows(j))
        new == jobs'[j].completed_steps
    IN  /\ wk[w].job_id = j
        /\ \/ wk[w].pc = "pr_client" /\ new = 1
           \/ wk[w].pc \in {"pr_cached", "pr_competitor"} /\ new = 1 + wk[w].i
           \/ wk[w].pc = "pr_analysis" /\ new = n + 2
           \/ wk[w].pc = "pr_email" /\ new = n + 3
           \/ wk[w].pc = "pr_final" /\ new = n + 4 /\ new = jobs[j].total_steps

ProgressSequence ==
    /\ [](\A j \in DOMAIN jobs :
            calls[j].result = "true" => jobs[j].completed_steps = jobs[j].total_steps)
    /\ [][/\ \A j \in DOMAIN jobs' \ DOMAIN jobs : jobs'[j].completed_steps = 0
          /\ \A j \in DOMAIN jobs \cap DOMAIN jobs' :
                jobs'[j].completed_steps # jobs[j].completed_steps =>
                    /\ jobs'[j].completed_steps = jobs[j].completed_steps + 1
                    /\ \E w \in Workers : ProgressWrite(j, w)]_vars

\* A job of three competitors has gone through all seven steps.
ProgressSequenceWitness ==
    \E j \in DOMAIN jobs :
        /\ calls[j].result = "true"
        /\ Len(Rows(j)) = 3
        /\ jobs[j].completed_steps = 7

\* C15: the analysis is invoked only once the client files are on disk and
\* a competitor is completed, an email is sent only after the one analysis
\* call left its output file, and the status becomes completed only after a
\* successful send; a job failed by the analysis has seen no email attempt.
ClientDataSaved(j) ==
    /\ \E p \in disk : p.folder = j /\ p.name = "client" /\ p.kind = "inventory"
    /\ \E p \in disk : p.folder = j /\ p.name = "client" /\ p.kind = "tools"

AnalysisDone(j) ==
    /\ calls[j].analysis = 1
    /\ \E p \in disk : p.folder = j /\ p.name = "analysis"

SomeCompleted(j) == \E p \in Positions(j) : Rows(j)[p].status = "completed"

PhaseOrder ==
    /\ [](\A j \in DOMAIN jobs :
            /\ jobs[j].status = "completed" =>
                  /\ ClientDataSaved(j)
                  /\ SomeCompleted(j)
                  /\ AnalysisDone(j)
                  /\ calls[j].email_ok = 1
            /\ jobs[j].error_message = MsgAnalysis =>
                  jobs[j].status = "failed" /\ calls[j].email = 0
            /\ (Returned(j) /\ calls[j].analysis = 1 /\ ~AnalysisDone(j)) =>
                  /\ jobs[j].status = "failed"
                  /\ jobs[j].error_message = MsgAnalysis
                  /\ calls[j].email = 0)
    /\ [][\A j \in DOMAIN jobs \cap DOMAIN jobs' :
            /\ calls'[j].analysis > calls[j].analysis =>
                  /\ calls[j].analysis = 0 /\ calls[j].email = 0
                  /\ ClientDataSaved(j) /\ SomeCompleted(j)
                  /\ jobs[j].completed_steps = Len(Rows(j)) + 1
            /\ calls'[j].email > calls[j].email =>
                  AnalysisDone(j) /\ jobs[j].completed_steps = Len(Rows(j)) + 2
            /\ (jobs'[j].status = "completed" /\ jobs[j].status # "completed") =>
                  calls[j].email_ok = 1 /\ jobs[j].completed_steps = Len(Rows(j)) + 3]_vars

\* A completed job one of whose competitors failed and another succeeded.
PhaseOrderWitness ==
    \E j \in DOMAIN jobs :
        /\ jobs[j].status = "completed"
        /\ \E p, q \in Positions(j) :
              Rows(j)[p].status = "failed" /\ Rows(j)[q].status = "completed"

\* C16: a run that could not put both client files on disk has returned
\* with the job failed and the inventory or tools message; such a job has
\* completed_steps 0, every competitor pending, and no cache lookup,
\* scraper, analysis or email call was made for it.
PhaseOneFailure ==
    \A j \in DOMAIN jobs :
        /\ (Returned(j) /\ ~ClientDataSaved(j)) =>
              jobs[j].status = "failed" /\ jobs[j].error_message \in {MsgInventory, MsgTools}
        /\ jobs[j].error_message \in {MsgInventory, MsgTools} =>
              /\ jobs[j].status = "failed"
              /\ calls[j].result = "false"
              /\ jobs[j].completed_steps = 0
              /\ \A p \in Positions(j) :
                    /\ Rows(j)[p].status = "pending"
                    /\ calls[j].lookups[p] = 0
                    /\ calls[j].scrapes[p] = 0
              /\ calls[j].analysis = 0
              /\ calls[j].email = 0

\* The inventory file was written, the tools payload failed: the job of two
\* competitors is failed with both still pending.
PhaseOneFailureWitness ==
    \E j \in DOMAIN jobs :
        /\ jobs[j].error_message = MsgTools
        /\ \E p \in disk : p.folder = j /\ p.name = "client" /\ p.kind = "inventory"
        /\ Len(Rows(j)) = 2
        /\ \A p \in Positions(j) : Rows(j)[p].status = "pending"

\* C17: a failed job has an error message, in every store state and on
\* every path, the exception handlers of process_job and of the worker
\* included.
FailedHasMessage ==
    \A j \in DOMAIN jobs : jobs[j].status = "failed" => jobs[j].error_message # NoText

\* A job failed by the worker's handler, after the handler of process_job
\* could not write.
FailedHasMessageWitness ==
    \E j \in DOMAIN jobs :
        /\ jobs[j].status = "failed"
        /\ jobs[j].error_message = MsgWorker
        /\ calls[j].result = "raised"

\* C18: the worker always has a next step in its loop; whenever process_job
\* ends (returning or raising) the worker is back at the top of the loop;
\* and an exception that left process_job ends with the job failed and the
\* worker's message on it.
LoopSurvives ==
    /\ [](\A w \in Workers : ENABLED (WorkerLoop(w) \/ ProcessJob(w) \/ Exceptions(w)))
    /\ [][\A w \in Workers :
            /\ (wk[w].job_id # NoJobId /\ wk'[w].job_id = NoJobId) => wk'[w].pc = "idle"
            /\ (wk[w].pc = "worker_handler" /\ wk'[w].pc # "worker_handler") =>
                  /\ wk'[w].pc = "idle"
                  /\ wk[w].job_id \in DOMAIN jobs' =>
                        /\ jobs'[wk[w].job_id].status = "failed"
                        /\ jobs'[wk[w].job_id].error_message = MsgWorker]_vars

\* C19: with store calls that succeed and collaborators that return, a run
\* of process_job that has returned left the job completed or failed; every
\* run that found its job comes back to the loop; and every queued job
\* reaches a terminal status.
RunsEnd ==
    /\ [](\A j \in DOMAIN jobs : Returned(j) => jobs[j].status \in Terminal)
    /\ \A w \in Workers : (wk[w].pc = "st_starting") ~> (wk[w].pc = "idle")
    /\ \A j \in JobIds :
          (j \in DOMAIN jobs /\ jobs[j].status = "queued")
              ~> (j \in DOMAIN jobs /\ jobs[j].status \in Terminal)

\* A run has returned false and the job is failed.
RunsEndWitness ==
    \E j \in DOMAIN jobs :
        /\ calls[j].result = "false"
        /\ jobs[j].status = "failed"
        /\ jobs[j].completed_steps > 1

\* C20: the job a poll hands to process_job is queued at the poll, and no
\* queued job was created before it.
OldestFirst ==
    [][\A w \in Workers :
          (wk'[w].pc = "get_job" /\ wk[w].pc # "get_job") =>
              /\ wk'[w].job_id \in DOMAIN jobs
              /\ jobs[wk'[w].job_id].status = "queued"
              /\ \A o \in DOMAIN jobs :
                    jobs[o].status = "queued" =>
                        jobs[wk'[w].job_id].created_at <= jobs[o].created_at]_vars

\* The worker holds the older of two jobs; the younger one waits, queued.
OldestFirstWitness ==
    \E w \in Workers, o \in DOMAIN jobs :
        /\ wk[w].pc = "get_job"
        /\ wk[w].job_id \in DOMAIN jobs
        /\ jobs[o].status = "queued"
        /\ jobs[o].created_at > jobs[wk[w].job_id].created_at

\* C21: within a job the competitors are resolved one at a time and in the
\* order of the creation list: once a later position has been looked up in the
\* cache or scraped, no earlier position is looked up or scraped again, and
\* the competitor resolved at a position is the one created at that position.
Asked(c, p) == c.lookups[p] + c.scrapes[p]

CreationOrder ==
    /\ [][\A j \in QueueJobIds : \A p, q \in Positions(j) :
             (/\ Len(calls'[j].lookups) = Len(calls[j].lookups)
              /\ p < q
              /\ Asked(calls'[j], p) > Asked(calls[j], p)) => Asked(calls'[j], q) = 0]_vars
    /\ [](\A w \in Workers : \A p \in 1..Len(wk[w].competitors) :
             (calls[Job(w)].lookups[p] > 0 /\ p <= Len(Rows(Job(w))))
                 => wk[w].competitors[p] = Rows(Job(w))[p].competitor_url)

\* C22: within one worker process a cleanup run begins only when the process
\* has not run one yet or the previous run began at least 24 hours earlier,
\* whatever that run's outcome; a process polls only after its first run, so
\* a restarted process runs the cleanup on its first iteration.
CleanupBegins(w) ==
    wk[w].pc = "idle" /\ wk'[w].pc \in {"cl_folders", "cl_cache", "poll"}

CleanupDaily ==
    /\ [][\A w \in Workers :
             (CleanupBegins(w) /\ wk[w].cleanup_began # NullTime)
                 => now - wk[w].cleanup_began >= 1]_vars
    /\ [](\A w \in Workers :
             wk[w].cleanup_began = NullTime => (wk[w].pc = "idle" /\ CleanupDue(w)))

\* C23: with two workers on one store the poll is a plain read (it changes
\* no row) and process_job sets the job it was given to processing whatever
\* the job's status was, so both workers can be inside process_job for the
\* same job at the same time.
InProcessJob(w) == wk[w].pc \notin {"idle", "poll", "cl_folders", "cl_cache", "get_job"}

DuplicateWork ==
    /\ [][\A w \in RaceWorkers : Poll(w) => UNCHANGED <<jobs, job_competitors>>]_vars
    /\ [][\A w \in RaceWorkers :
             (wk[w].pc = "st_starting" /\ wk'[w].pc # "st_starting")
                 => (/\ wk'[w].pc = "st_saving"
                     /\ jobs'[Job(w)].status = "processing")]_vars

\* Both workers are past the first status write of process_job for the same
\* job.
DuplicateWorkWitness ==
    /\ wk["w1"].job_id = wk["w2"].job_id
    /\ wk["w1"].job_id \in DOMAIN jobs
    /\ InProcessJob("w1") /\ wk["w1"].pc # "st_starting"
    /\ InProcessJob("w2") /\ wk["w2"].pc # "st_starting"

\* C24: a job left in status processing by a worker that died is changed by
\* no later step: the poll does not return it, no run resumes it and no
\* cleanup run deletes it or its competitor rows.
Orphaned(j) ==
    jobs[j].status = "processing" /\ \A w \in Workers : wk[w].job_id # j

StuckForever ==
    /\ [][\A j \in DOMAIN jobs :
             Orphaned(j) =>
                 /\ j \in DOMAIN jobs'
                 /\ jobs'[j] = jobs[j]
                 /\ SelectSeq(job_competitors', LAMBDA r : r.job_id = j) = Rows(j)
                 /\ \A w \in Workers : wk'[w].job_id # j]_vars
    /\ [](\A j \in DOMAIN jobs : Orphaned(j) => j \notin get_queued_jobs)

\* The worker died in the middle of a job; the restarted worker has run its
\* cleanup at a time when the job is older than the retention period.
StuckForeverWitness ==
    \E j \in DOMAIN jobs : \E w \in Workers :
        /\ Orphaned(j)
        /\ jobs[j].created_at < now - cleanup_retention_days
        /\ wk[w].cleanup_began = now
        /\ wk[w].pc = "idle"

\* C25: started_at is null while the job is queued; the first update_status
\* that moves the job to processing sets it, with or without a current_step,
\* and no later update_status changes it; every update_status sets
\* updated_at.
StartedOnce ==
    /\ [](\A j \in DOMAIN jobs : jobs[j].status = "queued" => jobs[j].started_at = NullTime)
    /\ [][\A j \in DOMAIN jobs :
             \A status \in {"processing", "completed", "failed"},
                current_step \in {NoText, "Starting"}, error_message \in {NoText, MsgWorker} :
                ApiStatus(j, status, current_step, error_message) =>
                    /\ jobs'[j].updated_at = now
                    /\ jobs'[j].started_at =
                          IF jobs[j].started_at # NullTime THEN jobs[j].started_at
                          ELSE IF status = "processing" THEN now ELSE NullTime]_vars

\* C26: completed_at is null until the job's first transition into completed
\* or failed, is set by that transition, and no later write on the job
\* changes it.
CompletedOnce ==
    /\ [](\A j \in DOMAIN jobs : jobs[j].status = "queued" => jobs[j].completed_at = NullTime)
    /\ [][\A j \in DOMAIN jobs \cap DOMAIN jobs' :
             /\ (jobs[j].completed_at = NullTime /\ jobs'[j].completed_at # NullTime)
                   => (jobs'[j].status \in Terminal /\ jobs'[j].completed_at = now)
             /\ (jobs[j].status \notin Terminal /\ jobs'[j].status \in Terminal)
                   => jobs'[j].completed_at # NullTime
             /\ jobs[j].completed_at # NullTime
                   => jobs'[j].completed_at = jobs[j].completed_at]_vars

\* C27: the stored progress_percentage is completed_steps * 100 / total_steps
\* of the stored completed_steps, as an integer (rounded down or to the
\* nearest), and null when total_steps is 0; a job whose completed_steps
\* equals total_steps has 100.
PercentageOf(row) ==
    IF row.total_steps = 0 THEN row.progress_percentage = NullInt
    ELSE LET d == row.progress_percentage * row.total_steps - row.completed_steps * 100
         IN  d < row.total_steps /\ 0 - d < row.total_steps

PercentageCurrent ==
    \A j \in DOMAIN jobs :
        /\ PercentageOf(jobs[j])
        /\ jobs[j].completed_steps = jobs[j].total_steps => jobs[j].progress_percentage = 100

\* C28: update_competitor_status keeps a stored path when the call supplies
\* none and overwrites it when the call supplies one; scraped_at is written
\* by calls with status completed only; rows of another job (or of another
\* url) are not changed.
PreserveOnNull ==
    [][\A j \in JobIds, url \in URLs, status \in {"completed", "failed", "aborted"},
          inventory_path \in ApiInventoryPaths \cup {NoPath},
          tools_path \in ApiToolsPaths \cup {NoPath} :
          ApiCompetitor(j, url, status, inventory_path, tools_path) =>
              /\ Len(job_competitors') = Len(job_competitors)
              /\ \A k \in 1..Len(job_competitors) :
                    LET old == job_competitors[k]
                        new == job_competitors'[k]
                    IN  IF old.job_id = j /\ old.competitor_url = url
                        THEN /\ new.status = status
                             /\ new.inventory_path =
                                   IF inventory_path = NoPath THEN old.inventory_path
                                   ELSE inventory_path
                             /\ new.tools_path =
                                   IF tools_path = NoPath THEN old.tools_path ELSE tools_path
                             /\ new.scraped_at =
                                   IF status = "completed" THEN now ELSE old.scraped_at
                        ELSE new = old]_vars

\* A row completed with its paths on an earlier day has since been marked
\* failed without paths, and the other job has a row of the same url that no
\* call was made for.
PreserveOnNullWitness ==
    \E a, b \in 1..Len(job_competitors) :
        /\ job_competitors[a].status = "failed"
        /\ job_competitors[a].inventory_path # NoPath
        /\ job_competitors[a].tools_path # NoPath
        /\ job_competitors[a].scraped_at # NullTime
        /\ job_competitors[a].scraped_at < now
        /\ job_competitors[b].job_id # job_competitors[a].job_id
        /\ job_competitors[b].competitor_url = job_competitors[a].competitor_url
        /\ job_competitors[b].status = "pending"

\* C29: create_job with a job_id that exists raises the conflict error and
\* changes neither the job rows nor the competitor rows.
CreateConflict ==
    [][\A j \in JobIds, u \in URLs :
          (j \in DOMAIN jobs /\ ApiCreate(j, <<u>>)) =>
              /\ op'.error = "IntegrityError"
              /\ jobs' = jobs
              /\ job_competitors' = job_competitors]_vars

\* The create that failed was for a job whose progress had been written
\* since its creation: the row has kept it, and the job has its one
\* competitor row.
CreateConflictWitness ==
    /\ op.error = "IntegrityError"
    /\ op.job_id \in DOMAIN jobs
    /\ jobs[op.job_id].completed_steps = 2
    /\ Len(Rows(op.job_id)) = 1

\* C30: a store call ends in success, in the connectivity error or in the
\* error of its statement and in nothing else; success means the statement
\* ran and was committed exactly once; the connectivity error surfaces only
\* when the three attempts are used up, with nothing committed; any other
\* error is raised with nothing committed.
RetryContract ==
    /\ op.attempt <= max_retries - 1
    /\ op.committed <= 1
    /\ op.pc = "done" =>
          /\ op.error \in {"none", "OperationalError", "DataError", "IntegrityError"}
          /\ op.error = "none" => (op.executed = 1 /\ op.committed = 1)
          /\ op.error = "OperationalError" =>
                (op.attempt = max_retries - 1 /\ op.committed = 0)
          /\ op.error \in {"DataError", "IntegrityError"} => op.committed = 0

\* C31: create_job inserts the job queued, with completed_steps 0 and
\* total_steps = 2 + (number of competitors) + 2, and one pending competitor
\* row per competitor; no later step changes total_steps.
TotalSteps ==
    /\ [](\A j \in DOMAIN jobs : jobs[j].total_steps = 2 + Len(Rows(j)) + 2)
    /\ [][\A j \in DOMAIN jobs' :
             IF j \in DOMAIN jobs
             THEN jobs'[j].total_steps = jobs[j].total_steps
             ELSE /\ jobs'[j].status = "queued"
                  /\ jobs'[j].completed_steps = 0
                  /\ \A k \in 1..Len(job_competitors') :
                        job_competitors'[k].job_id = j
                            => job_competitors'[k].status = "pending"]_vars

\* A job of three competitors has been run to completion.
TotalStepsWitness ==
    \E j \in DOMAIN jobs :
        /\ jobs[j].status = "completed"
        /\ Len(Rows(j)) = 3
        /\ jobs[j].total_steps = 7

\* C32: a job row is visible exactly with all its competitor rows, so the
\* worker never runs a job with fewer competitors than were supplied; every
\* other write changes one table in one step.
CreateAtomic ==
    /\ [](\A j \in DOMAIN jobs : Len(Rows(j)) = jobs[j].total_steps - 4)
    /\ [](\A k \in 1..Len(job_competitors) : job_competitors[k].job_id \in DOMAIN jobs)
    /\ [](\A w \in Workers :
             (InProcessJob(w) /\ Job(w) \in DOMAIN jobs)
                 => Len(wk[w].competitors) = jobs[Job(w)].total_steps - 4)
    /\ [][((jobs' # jobs /\ job_competitors' # job_competitors)
               => DOMAIN jobs' # DOMAIN jobs)
           /\ (scraped_sites' # scraped_sites
                  => (jobs' = jobs /\ job_competitors' = job_competitors))]_vars

\* The job row and the first of three competitor rows are inserted and not
\* yet committed; the worker has polled and found no job.
CreateAtomicWitness ==
    /\ op.pc = "insert_competitor"
    /\ Len(op.urls) = 3
    /\ op.executed = 2
    /\ \E w \in Workers :
          wk[w].pc = "idle" /\ wk[w].cleanup_began # NullTime /\ ~CleanupDue(w)

\* C33: the analysis is invoked at most once for a job, and its file list is
\* the client inventory, the client tools, and then the inventory and tools
\* file of every competitor whose row is completed, in the order of the
\* competitor list, and of no other competitor (stated for jobs whose
\* competitor URLs are pairwise distinct, where every row is written by its
\* own position only).
RECURSIVE CompletedPairs(_)
CompletedPairs(rows) ==
    IF rows = <<>> THEN <<>>
    ELSE (IF Head(rows).status = "completed"
          THEN <<Head(rows).inventory_path, Head(rows).tools_path>> ELSE <<>>)
         \o CompletedPairs(Tail(rows))

CompletedJobRows ==
    \A j \in DOMAIN jobs :
        jobs[j].status = "completed" =>
            /\ \A p \in 1..Len(Rows(j)) : Rows(j)[p].status \in {"completed", "failed"}
            /\ \E p \in 1..Len(Rows(j)) :
                  /\ Rows(j)[p].status = "completed"
                  /\ Rows(j)[p].inventory_path # NoPath
                  /\ Rows(j)[p].tools_path # NoPath
            /\ Cardinality({p \in 1..Len(Rows(j)) : Rows(j)[p].status = "failed"}) <= 1

\* C35: the files moved into the data folder, recorded on the competitor row
\* and cached under its URL were written by the scraper invocation of the
\* same attempt: a file left in output/ by an earlier attempt is never taken
\* as the result of a later invocation that exited 0 without writing it.
OwnArtifacts ==
    \A j \in DOMAIN calls : ~calls[j].stale

\* C36: a competitor status update of process_job changes no row of the job
\* but the one of the competitor it is made for, and marking the remaining
\* competitors aborted leaves the status of every competitor already
\* attempted as it was, whatever URLs the competitor list holds.
UpdatedPosition(w) == IF wk[w].pc = "abort_mark" THEN wk[w].k ELSE wk[w].i

OneRowPerUpdate ==
    [][\A w \in Workers :
          (/\ wk[w].pc \in {"cs_cached", "cs_scraped", "cs_failed", "abort_mark"}
           /\ wk'[w].pc # wk[w].pc \/ wk'[w].k # wk[w].k
           /\ Len(Rows(wk[w].job_id)') = Len(Rows(wk[w].job_id)))
             => \A p \in 1..Len(Rows(wk[w].job_id)) :
                   /\ (p # UpdatedPosition(w))
                         => Rows(wk[w].job_id)'[p] = Rows(wk[w].job_id)[p]
                   /\ (wk[w].pc = "abort_mark" /\ p <= wk[w].i)
                         => Rows(wk[w].job_id)'[p].status = Rows(wk[w].job_id)[p].status]_vars

\* C37: the jobs whose rows the cleanup deletes are the jobs it selected for
\* folder removal, whatever other processes write between its SELECT and its
\* DELETE: no row is deleted whose data_folder is not in old_jobs.
DeletedAreSelected ==
    [][\A w \in Workers :
          (wk[w].pc = "cl_delete" /\ wk'[w].pc = "cl_folders")
             => {jobs[j].data_folder : j \in DOMAIN jobs \ DOMAIN jobs'} = wk[w].old_jobs]_vars

\* C38: process_job writes the cache only after a successful scrape: the
\* step after _run_scraper returned replaces the entry of that URL alone, by
\* one with status success and the inventory and tools file just moved into
\* the job's data folder; no other step of process_job (a failed attempt, a
\* cache hit, an abort) changes a cache row.
CacheWriteOnSuccess ==
    [][/\ (\A w \in Workers : wk[w].pc \notin {"cache_save", "cl_cache"})
             => scraped_sites' = scraped_sites
       /\ \A w \in Workers :
             (wk[w].pc = "cache_save" /\ wk'[w].pc # "cache_save") =>
                /\ calls[Job(w)].scrape_ok[wk[w].i] >= 1
                /\ {r \in scraped_sites' : r.url # Url(w)}
                      = {r \in scraped_sites : r.url # Url(w)}
                /\ \E r \in scraped_sites' : r.url = Url(w)
                /\ \A r \in scraped_sites' :
                      (r.url = Url(w)) =>
                         /\ r.status = "success"
                         /\ r.inventory_path =
                               Path(jobs[Job(w)].data_folder, Url(w), now, "inventory")
                         /\ r.tools_path =
                               Path(jobs[Job(w)].data_folder, Url(w), now, "tools")
                         /\ Exists(r.inventory_path)
                         /\ Exists(r.tools_path)]_vars

\* The second scraper invocation for a competitor succeeded after the first
\* had failed, and its two files have been cached under the URL.
CacheWriteOnSuccessWitness ==
    \E w \in Workers :
        /\ wk[w].pc = "cs_scraped"
        /\ calls[Job(w)].scrapes[wk[w].i] = 2
        /\ \E r \in scraped_sites :
              /\ r.url = Url(w)
              /\ r.status = "success"
              /\ r.inventory_path = wk[w].inv_path
              /\ r.tools_path = wk[w].tools_path

====
